---- MODULE Spec2Model ----
(***************************************************************************)
(* A model of the sqrl-protocol crate: protocol version sets               *)
(* (src/src/lib.rs), client requests (src/src/client_request.rs) and       *)
(* server responses (src/src/server_response.rs).                          *)
(*                                                                         *)
(* Text is a sequence of one-character strings.  A u128 bitmask is the set *)
(* of the indices (0..127) of its set bits.  Results of fallible calls are *)
(* records with a field kind: "Ok", "Err" (an Err value returned to the    *)
(* caller) or "Panic" (the thread unwinds / the process aborts).           *)
(***************************************************************************)
EXTENDS Integers, Sequences, FiniteSets, TLC

VARIABLES
    overflow_checks,   \* build profile: TRUE = overflow checks on (debug), FALSE = wrapping (release)
    versions,          \* ProtocolVersion::new: the version string passed in
    prot,              \* ProtocolVersion::new: what the call returned
    other_versions,    \* the version string of the peer
    other,             \* the peer's ProtocolVersion
    matched,           \* what get_max_matching_version returned
    request,           \* a ClientRequest value
    validated,         \* what ClientRequest::validate returned
    signed,            \* the strings get_signed_string returned, in call order
    wire,              \* text on the wire: a query string or a base64 block
    parsed,            \* what the parser called on wire returned
    params,            \* a ClientParameters value
    response,          \* a ServerResponse value
    encoded,           \* the texts to_base64 and to_string returned, in call order
    shown,             \* what prot.to_string() returned
    reparsed,          \* what ProtocolVersion::new returned for shown
    matched_back,      \* what the peer's get_max_matching_version returned
    tif_flags,         \* a list of TIFValue
    tif_string         \* the tif value written for a list of TIFValue

vars == <<overflow_checks, versions, prot, other_versions, other, matched,
          request, validated, signed, wire, parsed,
          params, response, encoded, shown, reparsed, matched_back,
          tif_flags, tif_string>>

\* a list of status flags and its encoding
tifVars == <<tif_flags, tif_string>>

\* the values and texts of the block codecs
blockVars == <<params, response, encoded>>

\* the results of the calls made on a constructed ProtocolVersion
viewVars == <<shown, reparsed, matched_back>>

None == [kind |-> "None"]
Err(msg) == [kind |-> "Err", msg |-> msg]
Panic == [kind |-> "Panic"]
Some(v) == [kind |-> "Some", val |-> v]

(***************************************************************************)
(* Text                                                                    *)
(***************************************************************************)
Digits == <<"0", "1", "2", "3", "4", "5", "6", "7", "8", "9">>

IsDigit(c) == \E i \in 1..10 : Digits[i] = c

DigitVal(c) == (CHOOSE i \in 1..10 : Digits[i] = c) - 1

RECURSIVE DigitsValue(_)
DigitsValue(s) ==
    IF s = <<>> THEN 0
    ELSE 10 * DigitsValue(SubSeq(s, 1, Len(s) - 1)) + DigitVal(s[Len(s)])

\* u8::MAX and u16::MAX
U8Max == 255

U16Max == 65535

\* str::parse of an unsigned integer succeeds: an optional '+', then one or more
\* decimal digits, the value at most max
IsUInt(s, max) ==
    LET body == IF s # <<>> /\ s[1] = "+" THEN Tail(s) ELSE s
    IN  /\ body # <<>>
        /\ \A i \in 1..Len(body) : IsDigit(body[i])
        /\ DigitsValue(body) <= max

\* the value str::parse of an unsigned integer returns when it succeeds
ParseUInt(s) == DigitsValue(IF s[1] = "+" THEN Tail(s) ELSE s)

\* str::parse::<u8>
IsU8(s) == IsUInt(s, U8Max)

ParseU8(s) == ParseUInt(s)

\* integer Display
RECURSIVE ToDecimal(_)
ToDecimal(n) ==
    IF n < 10 THEN <<Digits[n + 1]>>
    ELSE ToDecimal(n \div 10) \o <<Digits[(n % 10) + 1]>>

Contains(s, c) == \E i \in 1..Len(s) : s[i] = c

IndexOf(s, c) == CHOOSE i \in 1..Len(s) : s[i] = c /\ \A j \in 1..(i - 1) : s[j] # c

\* str::split(c): the pieces between the separators, empty pieces included
RECURSIVE Split(_, _)
Split(s, c) ==
    IF ~Contains(s, c) THEN <<s>>
    ELSE LET i == IndexOf(s, c)
         IN  <<SubSeq(s, 1, i - 1)>> \o Split(SubSeq(s, i + 1, Len(s)), c)

\* Vec<String>::join(sep)
RECURSIVE Join(_, _)
Join(parts, sep) ==
    IF parts = <<>> THEN <<>>
    ELSE IF Len(parts) = 1 THEN parts[1]
    ELSE parts[1] \o sep \o Join(Tail(parts), sep)

(***************************************************************************)
(* ProtocolVersion                                                         *)
(***************************************************************************)
\* the width of the u128 bitmask
MaskBits == 128

\* the number of u8 values
U8Mod == 256

\* `x << amount` and `x >> amount` on u128 panic instead of masking the amount
ShiftPanics(amount, checks) == amount >= MaskBits /\ checks

\* the amount a shift on u128 really shifts by
ShiftAmount(amount) == amount % MaskBits

\* `v - 1` on u8 panics instead of wrapping
SubOnePanics(v, checks) == v = 0 /\ checks

\* `v - 1` on u8
SubOne(v) == (v + U8Mod - 1) % U8Mod

\* `prot.versions |= 1 << (v - 1)` panics
VersionBitPanics(v, checks) ==
    SubOnePanics(v, checks) \/ ShiftPanics(SubOne(v), checks)

\* the index of the bit that `prot.versions |= 1 << (v - 1)` sets
VersionBit(v) == ShiftAmount(SubOne(v))

\* `if v > prot.max_version { prot.max_version = v }`
RaiseMax(p, v) == IF v > p.max_version THEN v ELSE p.max_version

\* one pass of the loop body of ProtocolVersion::new over the token sub
NewToken(sub, p, checks) ==
    IF Contains(sub, "-")
    THEN LET parts == Split(sub, "-")
         IN  IF ~IsU8(parts[1]) \/ ~IsU8(parts[2]) THEN Err("ParseIntError")
             ELSE LET low == ParseU8(parts[1])
                      high == ParseU8(parts[2])
                  IN  IF low >= high THEN Err("Invalid version number")
                      ELSE IF high + 1 >= U8Mod
                      THEN \* `high + 1` overflows u8: the range is low..0 when it wraps
                           IF checks THEN Panic
                           ELSE [kind |-> "Ok", versions |-> p.versions,
                                 max_version |-> RaiseMax(p, high)]
                      ELSE IF \E i \in low..high : VersionBitPanics(i, checks) THEN Panic
                      ELSE [kind |-> "Ok",
                            versions |-> p.versions \cup {VersionBit(i) : i \in low..high},
                            max_version |-> RaiseMax(p, high)]
    ELSE IF ~IsU8(sub) THEN Err("ParseIntError")
    ELSE LET version == ParseU8(sub)
         IN  IF VersionBitPanics(version, checks) THEN Panic
             ELSE [kind |-> "Ok", versions |-> p.versions \cup {VersionBit(version)},
                   max_version |-> RaiseMax(p, version)]

RECURSIVE NewLoop(_, _, _)
NewLoop(subs, p, checks) ==
    IF subs = <<>> THEN p
    ELSE LET q == NewToken(subs[1], p, checks)
         IN  IF q.kind # "Ok" THEN q ELSE NewLoop(Tail(subs), q, checks)

\* ProtocolVersion::new
ProtocolVersionNew(s, checks) ==
    NewLoop(Split(s, ","), [kind |-> "Ok", versions |-> {}, max_version |-> 0], checks)

\* in i..min_max, the first pass of the loop that returns or panics
RECURSIVE MatchLoop(_, _, _, _, _)
MatchLoop(i, min_max, bit, matches, checks) ==
    IF i >= min_max THEN Err("No matching supported version!")
    ELSE IF ShiftPanics(i, checks) THEN Panic
    ELSE LET shifted == IF bit >= ShiftAmount(i) THEN {bit - ShiftAmount(i)} ELSE {}
         IN  IF shifted \subseteq matches
             THEN IF min_max - i + 1 >= U8Mod
                  THEN IF checks THEN Panic
                       ELSE [kind |-> "Ok", version |-> (min_max - i + 1) % U8Mod]
                  ELSE [kind |-> "Ok", version |-> min_max - i + 1]
             ELSE MatchLoop(i + 1, min_max, bit, matches, checks)

\* ProtocolVersion::get_max_matching_version
GetMaxMatchingVersion(self, oth, checks) ==
    LET min_max == IF self.max_version > oth.max_version THEN oth.max_version
                   ELSE self.max_version
        matches == self.versions \cap oth.versions
    IN  IF ShiftPanics(min_max, checks) THEN Panic
        ELSE MatchLoop(0, min_max, ShiftAmount(min_max), matches, checks)

\* Display for ProtocolVersion, `self.versions & bit == bit` in pass i of the loop:
\* bit is 1 << i, and 0 once it has been shifted 128 times (then the test holds)
DisplayBitSet(p, i) == i >= MaskBits \/ i \in p.versions

\* the passes in which the loop sets current_min: a set bit that follows no set bit
DisplayStarts(p) ==
    {i \in 0..(p.max_version - 1) :
        DisplayBitSet(p, i) /\ (i = 0 \/ ~DisplayBitSet(p, i - 1))}

\* the pass that ends the streak begun in pass min: the next one whose bit is not set,
\* or max_version when the streak is still open after the loop
DisplayEnd(p, min) ==
    IF \E i \in (min + 1)..(p.max_version - 1) : ~DisplayBitSet(p, i)
    THEN CHOOSE i \in (min + 1)..(p.max_version - 1) :
            ~DisplayBitSet(p, i) /\ \A j \in (min + 1)..(i - 1) : DisplayBitSet(p, j)
    ELSE p.max_version

\* what would be pushed were a streak of one written as a range too
DisplaySegmentAlwaysRange(p, min) ==
    ToDecimal(min + 1) \o <<"-">> \o ToDecimal(DisplayEnd(p, min))

\* what is pushed for the streak begun in pass min: "min+1" for a streak of one,
\* "min+1-end" otherwise
DisplaySegment(p, min) ==
    IF DisplayEnd(p, min) = min + 1 THEN ToDecimal(min + 1)
    ELSE ToDecimal(min + 1) \o <<"-">> \o ToDecimal(DisplayEnd(p, min))

\* impl fmt::Display for ProtocolVersion: the segments in the order of the passes,
\* joined by ","
ProtocolVersionDisplay(p) ==
    LET starts == DisplayStarts(p)
        nth(k) == CHOOSE a \in starts : Cardinality({b \in starts : b < a}) = k - 1
    IN  Join([k \in 1..Cardinality(starts) |-> DisplaySegment(p, nth(k))], <<",">>)

(***************************************************************************)
(* Bytes and base64 (BASE64_URL_SAFE_NO_PAD)                               *)
(***************************************************************************)
\* the ASCII characters: the character of code c is Ascii[c + 1]
Ascii == <<
    "<00>", "<01>", "<02>", "<03>", "<04>", "<05>", "<06>", "<07>",
    "<08>", "\t", "\n", "<0B>", "<0C>", "\r", "<0E>", "<0F>",
    "<10>", "<11>", "<12>", "<13>", "<14>", "<15>", "<16>", "<17>",
    "<18>", "<19>", "<1A>", "<1B>", "<1C>", "<1D>", "<1E>", "<1F>",
    " ", "!", "\"", "#", "$", "%", "&", "'",
    "(", ")", "*", "+", ",", "-", ".", "/",
    "0", "1", "2", "3", "4", "5", "6", "7",
    "8", "9", ":", ";", "<", "=", ">", "?",
    "@", "A", "B", "C", "D", "E", "F", "G",
    "H", "I", "J", "K", "L", "M", "N", "O",
    "P", "Q", "R", "S", "T", "U", "V", "W",
    "X", "Y", "Z", "[", "\\", "]", "^", "_",
    "<60>", "a", "b", "c", "d", "e", "f", "g",
    "h", "i", "j", "k", "l", "m", "n", "o",
    "p", "q", "r", "s", "t", "u", "v", "w",
    "x", "y", "z", "{", "|", "}", "~", "<7F>">>

Code(c) == (CHOOSE i \in 1..Len(Ascii) : Ascii[i] = c) - 1

\* str::as_bytes
AsBytes(s) == [i \in 1..Len(s) |-> Code(s[i])]

\* String::from_utf8 succeeds (the text of the model is ASCII)
IsUtf8(bytes) == \A i \in 1..Len(bytes) : bytes[i] < Len(Ascii)

\* the String that String::from_utf8 returns
FromUtf8(bytes) == [i \in 1..Len(bytes) |-> Ascii[bytes[i] + 1]]

\* the URL-safe alphabet: the symbol of the sextet v is Base64Alphabet[v + 1]
Base64Alphabet == <<
    "A", "B", "C", "D", "E", "F", "G", "H", "I", "J", "K", "L", "M", "N", "O", "P",
    "Q", "R", "S", "T", "U", "V", "W", "X", "Y", "Z", "a", "b", "c", "d", "e", "f",
    "g", "h", "i", "j", "k", "l", "m", "n", "o", "p", "q", "r", "s", "t", "u", "v",
    "w", "x", "y", "z", "0", "1", "2", "3", "4", "5", "6", "7", "8", "9", "-", "_">>

IsSymbol(c) == \E i \in 1..Len(Base64Alphabet) : Base64Alphabet[i] = c

Sextet(c) == (CHOOSE i \in 1..Len(Base64Alphabet) : Base64Alphabet[i] = c) - 1

Symbol(v) == Base64Alphabet[v + 1]

\* Engine::encode: three bytes give four symbols, a tail of one or two bytes
\* gives two or three symbols, and no padding is written
RECURSIVE Base64Encode(_)
Base64Encode(bytes) ==
    IF bytes = <<>> THEN <<>>
    ELSE IF Len(bytes) = 1
    THEN <<Symbol(bytes[1] \div 4), Symbol((bytes[1] % 4) * 16)>>
    ELSE IF Len(bytes) = 2
    THEN <<Symbol(bytes[1] \div 4),
           Symbol((bytes[1] % 4) * 16 + bytes[2] \div 16),
           Symbol((bytes[2] % 16) * 4)>>
    ELSE <<Symbol(bytes[1] \div 4),
           Symbol((bytes[1] % 4) * 16 + bytes[2] \div 16),
           Symbol((bytes[2] % 16) * 4 + bytes[3] \div 64),
           Symbol(bytes[3] % 64)>> \o Base64Encode(SubSeq(bytes, 4, Len(bytes)))

\* Engine::decode succeeds: only symbols of the alphabet (so no padding), no
\* dangling single symbol, and no set bits after the last whole byte
IsBase64(s) ==
    /\ \A i \in 1..Len(s) : IsSymbol(s[i])
    /\ Len(s) % 4 # 1
    /\ Len(s) % 4 = 2 => Sextet(s[Len(s)]) % 16 = 0
    /\ Len(s) % 4 = 3 => Sextet(s[Len(s)]) % 4 = 0

\* the bytes Engine::decode returns when it succeeds
RECURSIVE Base64Decode(_)
Base64Decode(s) ==
    IF Len(s) < 2 THEN <<>>
    ELSE IF Len(s) = 2
    THEN <<Sextet(s[1]) * 4 + Sextet(s[2]) \div 16>>
    ELSE IF Len(s) = 3
    THEN <<Sextet(s[1]) * 4 + Sextet(s[2]) \div 16,
           (Sextet(s[2]) % 16) * 16 + Sextet(s[3]) \div 4>>
    ELSE <<Sextet(s[1]) * 4 + Sextet(s[2]) \div 16,
           (Sextet(s[2]) % 16) * 16 + Sextet(s[3]) \div 4,
           (Sextet(s[3]) % 4) * 64 + Sextet(s[4])>> \o Base64Decode(SubSeq(s, 5, Len(s)))

(***************************************************************************)
(* Key-value text: query strings and newline data                          *)
(***************************************************************************)
\* a HashMap<String, String> is a function from its keys to their values
EmptyMap == [k \in {} |-> <<>>]

\* HashMap::insert: a later value replaces an earlier one of the same key
Insert(map, key, value) == [k \in DOMAIN map \cup {key} |-> IF k = key THEN value ELSE map[k]]

\* HashMap::get
Get(map, key) == IF key \in DOMAIN map THEN Some(map[key]) ELSE None

\* get_or_error
GetOrError(map, key, error_message) ==
    IF key \in DOMAIN map THEN [kind |-> "Ok", val |-> map[key]] ELSE Err(error_message)

\* char::is_whitespace on ASCII
IsWhitespace(c) == c \in {" ", "\t", "\n", "\r", "<0B>", "<0C>"}

\* str::trim
RECURSIVE Trim(_)
Trim(s) ==
    IF s = <<>> THEN s
    ELSE IF IsWhitespace(s[1]) THEN Trim(Tail(s))
    ELSE IF IsWhitespace(s[Len(s)]) THEN Trim(SubSeq(s, 1, Len(s) - 1))
    ELSE s

\* str::split_once('='): the text before and after the first '='
KeyOf(token) == SubSeq(token, 1, IndexOf(token, "=") - 1)

ValueOf(token) == SubSeq(token, IndexOf(token, "=") + 1, Len(token))

RECURSIVE QueryLoop(_, _)
QueryLoop(tokens, map) ==
    IF tokens = <<>> THEN [kind |-> "Ok", val |-> map]
    ELSE IF Contains(tokens[1], "=")
    THEN QueryLoop(Tail(tokens), Insert(map, KeyOf(tokens[1]), ValueOf(tokens[1])))
    ELSE Err("Invalid query data")

\* parse_query_data
ParseQueryData(query) == QueryLoop(Split(query, "&"), EmptyMap)

RECURSIVE NewlineLoop(_, _)
NewlineLoop(tokens, map) ==
    IF tokens = <<>> THEN [kind |-> "Ok", val |-> map]
    ELSE IF Contains(tokens[1], "=")
    THEN NewlineLoop(Tail(tokens), Insert(map, KeyOf(tokens[1]), Trim(ValueOf(tokens[1]))))
    ELSE IF tokens[1] # <<>> THEN Err("Invalid newline data")
    ELSE NewlineLoop(Tail(tokens), map)

\* parse_newline_data
ParseNewlineData(data) == NewlineLoop(Split(data, "\n"), EmptyMap)

\* the text encode_newline_data writes when the map is iterated in the given order;
\* entries is a sequence of <<key, value>> pairs
RECURSIVE EncodeInOrder(_, _)
EncodeInOrder(entries, order) ==
    IF order = <<>> THEN <<>>
    ELSE <<"\n">> \o entries[order[1]][1] \o <<"=">> \o entries[order[1]][2]
         \o EncodeInOrder(entries, Tail(order))

\* the orders in which a HashMap of n entries may be iterated: the order depends on
\* the RandomState of the map, which differs from one HashMap::new() to the next
IterationOrders(n) == {[i \in 1..n |-> f[i]] : f \in Permutations(1..n)}

\* encode_newline_data: every text the call may return for these entries
EncodeNewlineData(entries) ==
    {EncodeInOrder(entries, order) : order \in IterationOrders(Len(entries))}

(***************************************************************************)
(* Keys and signatures                                                     *)
(***************************************************************************)
KeyBytes == 32

SignatureBytes == 64

\* VerifyingKey::from_bytes succeeds: the bytes are a point of the curve (ed25519-dalek
\* decides; these are the keys of the crate's tests)
VerifyingKeys ==
    {Base64Decode(<<"i", "g", "g", "c", "u", "_", "e", "-", "t", "W", "q", "3", "s", "o", "g",
                    "a", "a", "2", "a", "A", "D", "C", "s", "x", "R", "Z", "E", "D", "9", "o",
                    "n", "9", "H", "7", "1", "6", "T", "A", "y", "P", "R", "0", "w">>),
     Base64Decode(<<"E", "6", "Q", "s", "2", "g", "X", "7", "W", "-", "P", "w", "i", "9", "Y",
                    "3", "K", "A", "m", "b", "k", "u", "Y", "j", "L", "S", "W", "X", "C", "t",
                    "K", "y", "B", "c", "y", "m", "W", "l", "o", "H", "A", "u", "o">>)}

\* decode_public_key
DecodePublicKey(key) ==
    IF ~IsBase64(key) THEN Err("Failed to decode base64 encoded public key")
    ELSE IF Len(Base64Decode(key)) # KeyBytes THEN Err("Error converting vec<u8> to [u8; 32]")
    ELSE IF Base64Decode(key) \notin VerifyingKeys THEN Err("Failed to generate public key")
    ELSE [kind |-> "Ok", val |-> Base64Decode(key)]

\* decode_signature
DecodeSignature(key) ==
    IF ~IsBase64(key) THEN Err("Failed to decode base64 encoded signature")
    ELSE IF Len(Base64Decode(key)) # SignatureBytes
    THEN Err("Error converting vec<u8> to [u8; 64]")
    ELSE [kind |-> "Ok", val |-> Base64Decode(key)]

(***************************************************************************)
(* ClientParameters                                                        *)
(***************************************************************************)
Ok(v) == [kind |-> "Ok", val |-> v]

\* the keys used for encoding ClientParameters
PROTOCOL_VERSION_KEY == <<"v", "e", "r">>
COMMAND_KEY == <<"c", "m", "d">>
IDENTITY_KEY_KEY == <<"i", "d", "k">>
OPTIONS_KEY == <<"o", "p", "t">>
BUTTON_KEY == <<"b", "t", "n">>
PREVIOUS_IDENTITY_KEY_KEY == <<"p", "i", "d", "k">>
INDEX_SECRET_KEY == <<"i", "n", "s">>
PREVIOUS_INDEX_SECRET_KEY == <<"p", "i", "n", "s">>
SERVER_UNLOCK_KEY_KEY == <<"s", "u", "k">>
VERIFY_UNLOCK_KEY_KEY == <<"v", "u", "k">>

\* impl fmt::Display for ClientCommand
ClientCommandDisplay(command) ==
    CASE command = "Query" -> <<"q", "u", "e", "r", "y">>
      [] command = "Ident" -> <<"i", "d", "e", "n", "t">>
      [] command = "Disable" -> <<"d", "i", "s", "a", "b", "l", "e">>
      [] command = "Enable" -> <<"e", "n", "a", "b", "l", "e">>
      [] command = "Remove" -> <<"r", "e", "m", "o", "v", "e">>

ClientCommands == {"Query", "Ident", "Disable", "Enable", "Remove"}

\* impl From<String> for ClientCommand: any other value panics
ClientCommandFrom(value) ==
    IF \E c \in ClientCommands : ClientCommandDisplay(c) = value
    THEN Ok(CHOOSE c \in ClientCommands : ClientCommandDisplay(c) = value)
    ELSE Panic

\* impl fmt::Display for ClientOption
ClientOptionDisplay(option) ==
    CASE option = "NoIPTest" -> <<"n", "o", "i", "p", "t", "e", "s", "t">>
      [] option = "SQRLOnly" -> <<"s", "q", "r", "l", "o", "n", "l", "y">>
      [] option = "Hardlock" -> <<"h", "a", "r", "d", "l", "o", "c", "k">>
      [] option = "ClientProvidedSession" -> <<"c", "p", "s">>
      [] option = "ServerUnlockKey" -> <<"s", "u", "k">>

ClientOptions == {"NoIPTest", "SQRLOnly", "Hardlock", "ClientProvidedSession", "ServerUnlockKey"}

\* impl TryFrom<&str> for ClientOption
ClientOptionTryFrom(value) ==
    IF \E o \in ClientOptions : ClientOptionDisplay(o) = value
    THEN Ok(CHOOSE o \in ClientOptions : ClientOptionDisplay(o) = value)
    ELSE Err("Invalid client option")

\* ClientOption::from_option_string
FromOptionString(opt) ==
    LET tokens == Split(opt, "~")
    IN  IF \E i \in 1..Len(tokens) : ClientOptionTryFrom(tokens[i]).kind = "Err"
        THEN Err("Invalid client option")
        ELSE Ok([i \in 1..Len(tokens) |-> ClientOptionTryFrom(tokens[i]).val])

\* ClientOption::to_option_string: "~" goes before an option unless the text is still empty
RECURSIVE ToOptionString(_)
ToOptionString(opt) ==
    IF opt = <<>> THEN <<>>
    ELSE LET options == ToOptionString(SubSeq(opt, 1, Len(opt) - 1))
         IN  IF options = <<>> THEN ClientOptionDisplay(opt[Len(opt)])
             ELSE options \o <<"~">> \o ClientOptionDisplay(opt[Len(opt)])

\* the entry Display inserts for an Option<String> field, if any
OptionalEntry(key, field) == IF field = None THEN <<>> ELSE <<<<key, field.val>>>>

\* impl fmt::Display for ClientParameters: the entries inserted into the HashMap
ClientParametersEntries(cp) ==
    <<<<PROTOCOL_VERSION_KEY, ProtocolVersionDisplay(cp.protocol_version)>>,
      <<COMMAND_KEY, ClientCommandDisplay(cp.command)>>,
      <<IDENTITY_KEY_KEY, Base64Encode(cp.identity_key)>>>>
    \o (IF cp.options = None THEN <<>>
        ELSE <<<<OPTIONS_KEY, ToOptionString(cp.options.val)>>>>)
    \o (IF cp.button = None THEN <<>> ELSE <<<<BUTTON_KEY, ToDecimal(cp.button.val)>>>>)
    \o (IF cp.previous_identity_key = None THEN <<>>
        ELSE <<<<PREVIOUS_IDENTITY_KEY_KEY, Base64Encode(cp.previous_identity_key.val)>>>>)
    \o OptionalEntry(INDEX_SECRET_KEY, cp.index_secret)
    \o OptionalEntry(PREVIOUS_INDEX_SECRET_KEY, cp.previous_index_secret)
    \o OptionalEntry(SERVER_UNLOCK_KEY_KEY, cp.server_unlock_key)
    \o OptionalEntry(VERIFY_UNLOCK_KEY_KEY, cp.verify_unlock_key)

\* impl fmt::Display for ClientParameters: every text to_string() may return
ClientParametersDisplay(cp) == EncodeNewlineData(ClientParametersEntries(cp))

\* ClientParameters::to_base64: every text the call may return
ClientParametersToBase64(cp) == {Base64Encode(AsBytes(t)) : t \in ClientParametersDisplay(cp)}

\* impl FromStr for ClientParameters, from the parsed map on
ClientParametersFromMap(map, checks) ==
    LET ver == GetOrError(map, PROTOCOL_VERSION_KEY, "Invalid client request: No version number")
        protocol_version == ProtocolVersionNew(ver.val, checks)
        cmd == GetOrError(map, COMMAND_KEY, "Invalid client request: No cmd value")
        command == ClientCommandFrom(cmd.val)
        idk == GetOrError(map, IDENTITY_KEY_KEY, "Invalid client request: No idk value")
        identity_key == DecodePublicKey(idk.val)
        btn == Get(map, BUTTON_KEY)
        pidk == Get(map, PREVIOUS_IDENTITY_KEY_KEY)
        opt == Get(map, OPTIONS_KEY)
    IN  IF ver.kind # "Ok" THEN ver
        ELSE IF protocol_version.kind # "Ok" THEN protocol_version
        ELSE IF cmd.kind # "Ok" THEN cmd
        ELSE IF command.kind # "Ok" THEN command
        ELSE IF idk.kind # "Ok" THEN idk
        ELSE IF identity_key.kind # "Ok" THEN identity_key
        ELSE IF btn # None /\ ~IsU8(btn.val)
        THEN Err("Invalid client request: Unable to parse btn")
        ELSE IF pidk # None /\ DecodePublicKey(pidk.val).kind # "Ok"
        THEN DecodePublicKey(pidk.val)
        ELSE IF opt # None /\ FromOptionString(opt.val).kind # "Ok"
        THEN FromOptionString(opt.val)
        ELSE Ok([protocol_version |-> protocol_version,
                 command |-> command.val,
                 identity_key |-> identity_key.val,
                 options |-> IF opt = None THEN None ELSE Some(FromOptionString(opt.val).val),
                 button |-> IF btn = None THEN None ELSE Some(ParseU8(btn.val)),
                 previous_identity_key |->
                     IF pidk = None THEN None ELSE Some(DecodePublicKey(pidk.val).val),
                 index_secret |-> Get(map, INDEX_SECRET_KEY),
                 previous_index_secret |-> Get(map, PREVIOUS_INDEX_SECRET_KEY),
                 server_unlock_key |-> Get(map, SERVER_UNLOCK_KEY_KEY),
                 verify_unlock_key |-> Get(map, VERIFY_UNLOCK_KEY_KEY)])

\* impl FromStr for ClientParameters
ClientParametersFromStr(s, checks) ==
    LET map == ParseNewlineData(s)
    IN  IF map.kind # "Ok" THEN map ELSE ClientParametersFromMap(map.val, checks)

\* ClientParameters::from_base64
ClientParametersFromBase64(base64_string, checks) ==
    IF ~IsBase64(base64_string) THEN Err("base64::DecodeError")
    ELSE IF ~IsUtf8(Base64Decode(base64_string)) THEN Err("FromUtf8Error")
    ELSE ClientParametersFromStr(FromUtf8(Base64Decode(base64_string)), checks)

(***************************************************************************)
(* ServerResponse                                                          *)
(***************************************************************************)
\* the keys used to encode a server response (ver and suk as for ClientParameters)
NUT_KEY == <<"n", "u", "t">>
TIF_KEY == <<"t", "i", "f">>
QUERY_URL_KEY == <<"q", "r", "y">>
SUCCESS_URL_KEY == <<"u", "r", "l">>
CANCEL_URL_KEY == <<"c", "a", "n">>
SECRET_INDEX_KEY == <<"s", "i", "n">>
ASK_KEY == <<"a", "s", "k">>

\* enum TIFValue, in the order of declaration, with the discriminants
TIFValues ==
    <<[name |-> "CurrentIdMatch", bit |-> 1],
      [name |-> "PreviousIdMatch", bit |-> 2],
      [name |-> "IpsMatch", bit |-> 4],
      [name |-> "SqrlDisabled", bit |-> 8],
      [name |-> "FunctionNotSupported", bit |-> 16],
      [name |-> "TransientError", bit |-> 32],
      [name |-> "CommandFailed", bit |-> 64],
      [name |-> "ClientFailure", bit |-> 128],
      [name |-> "BadId", bit |-> 256],
      [name |-> "IdentitySuperseded", bit |-> 512]>>

\* `*t as u16`
TIFBit(name) == TIFValues[CHOOSE i \in 1..Len(TIFValues) : TIFValues[i].name = name].bit

\* the test were it `value >= bit`
BitSetAtLeast(value, bit) == value >= bit

\* `value & bit > 0`
BitSet(value, bit) == (value \div bit) % 2 = 1

\* TIFValue::from_u16
TIFFromU16(value) ==
    LET hit(f) == BitSet(value, f.bit)
        picked == SelectSeq(TIFValues, hit)
    IN  [i \in 1..Len(picked) |-> picked[i].name]

\* TIFValue::parse_str
TIFParseStr(value) ==
    IF IsUInt(value, U16Max) THEN Ok(TIFFromU16(ParseUInt(value)))
    ELSE Err("Unable to parse server response status code (tif)")

\* the loop were it `tif += *t as u16`: a flag counts each time it occurs
TIFEncodeSum(flags) ==
    LET sum[i \in 0..Len(flags)] == IF i = 0 THEN 0 ELSE TIFBit(flags[i]) + sum[i - 1]
    IN  sum[Len(flags)]

\* `tif |= *t as u16` over the flags: the sum of the bits of the flags that occur
TIFEncode(flags) ==
    LET present == {flags[j] : j \in 1..Len(flags)}
        sum[S \in SUBSET present] ==
            IF S = {} THEN 0
            ELSE LET t == CHOOSE x \in S : TRUE IN TIFBit(t) + sum[S \ {t}]
    IN  sum[present]

\* impl fmt::Display for ServerResponse: the entries inserted into the HashMap
ServerResponseEntries(sr) ==
    <<<<PROTOCOL_VERSION_KEY, ProtocolVersionDisplay(sr.protocol_version)>>,
      <<NUT_KEY, sr.nut>>,
      <<TIF_KEY, ToDecimal(TIFEncode(sr.transaction_indication_flags))>>,
      <<QUERY_URL_KEY, sr.query_url>>>>
    \o OptionalEntry(SUCCESS_URL_KEY, sr.success_url)
    \o OptionalEntry(CANCEL_URL_KEY, sr.cancel_url)
    \o OptionalEntry(SECRET_INDEX_KEY, sr.secret_index)
    \o OptionalEntry(SERVER_UNLOCK_KEY_KEY, sr.server_unlock_key)
    \o OptionalEntry(ASK_KEY, sr.ask)

\* impl fmt::Display for ServerResponse: every text to_string() may return
ServerResponseDisplay(sr) == EncodeNewlineData(ServerResponseEntries(sr))

\* ServerResponse::to_base64: every text the call may return
ServerResponseToBase64(sr) == {Base64Encode(AsBytes(t)) : t \in ServerResponseDisplay(sr)}

\* impl FromStr for ServerResponse, from the parsed map on
ServerResponseFromMap(data, checks) ==
    LET ver == GetOrError(data, PROTOCOL_VERSION_KEY, "No version number in server response")
        protocol_version == ProtocolVersionNew(ver.val, checks)
        nut == GetOrError(data, NUT_KEY, "No nut in server response")
        tif == GetOrError(data, TIF_KEY, "No status code (tif) in server response")
        transaction_indication_flags == TIFParseStr(tif.val)
        qry == GetOrError(data, QUERY_URL_KEY, "No query url (qry) in server response")
    IN  IF ver.kind # "Ok" THEN ver
        ELSE IF protocol_version.kind # "Ok" THEN protocol_version
        ELSE IF nut.kind # "Ok" THEN nut
        ELSE IF tif.kind # "Ok" THEN tif
        ELSE IF transaction_indication_flags.kind # "Ok" THEN transaction_indication_flags
        ELSE IF qry.kind # "Ok" THEN qry
        ELSE Ok([protocol_version |-> protocol_version,
                 nut |-> nut.val,
                 transaction_indication_flags |-> transaction_indication_flags.val,
                 query_url |-> qry.val,
                 success_url |-> Get(data, SUCCESS_URL_KEY),
                 cancel_url |-> Get(data, CANCEL_URL_KEY),
                 secret_index |-> Get(data, SECRET_INDEX_KEY),
                 server_unlock_key |-> Get(data, SERVER_UNLOCK_KEY_KEY),
                 ask |-> Get(data, ASK_KEY)])

\* impl FromStr for ServerResponse
ServerResponseFromStr(s, checks) ==
    LET data == ParseNewlineData(s)
    IN  IF data.kind # "Ok" THEN data ELSE ServerResponseFromMap(data.val, checks)

\* ServerResponse::from_base64
ServerResponseFromBase64(base64_string, checks) ==
    IF ~IsBase64(base64_string) THEN Err("base64::DecodeError")
    ELSE IF ~IsUtf8(Base64Decode(base64_string)) THEN Err("FromUtf8Error")
    ELSE ServerResponseFromStr(FromUtf8(Base64Decode(base64_string)), checks)

(***************************************************************************)
(* SqrlUrl and ServerData                                                  *)
(***************************************************************************)
SQRL_PROTOCOL == <<"s", "q", "r", "l">>

IsAlpha(c) == Code(c) \in 65..90 \/ Code(c) \in 97..122

\* char::to_ascii_lowercase
ToLower(c) == IF Code(c) \in 65..90 THEN Ascii[Code(c) + 33] ELSE c

\* a character a URL scheme may hold after its first letter
IsSchemeChar(c) == IsAlpha(c) \/ IsDigit(c) \/ c \in {"+", "-", "."}

\* Url::parse drops C0 controls and spaces around the input, and tabs and newlines in it
RECURSIVE StripOuter(_)
StripOuter(s) ==
    IF s = <<>> THEN s
    ELSE IF Code(s[1]) <= 32 THEN StripOuter(Tail(s))
    ELSE IF Code(s[Len(s)]) <= 32 THEN StripOuter(SubSeq(s, 1, Len(s) - 1))
    ELSE s

UrlInput(s) == LET keep(c) == c \notin {"\t", "\n", "\r"} IN SelectSeq(StripOuter(s), keep)

\* the input has a scheme: a letter, then scheme characters, then ':'
HasScheme(u) ==
    /\ Contains(u, ":")
    /\ IndexOf(u, ":") > 1
    /\ IsAlpha(u[1])
    /\ \A i \in 1..(IndexOf(u, ":") - 1) : IsSchemeChar(u[i])

\* Url::scheme: lower case
SchemeOf(u) == [i \in 1..(IndexOf(u, ":") - 1) |-> ToLower(u[i])]

AfterScheme(u) == SubSeq(u, IndexOf(u, ":") + 1, Len(u))

\* the authority of a URL whose scheme is followed by "//": up to the first '/', '?' or '#'
AuthorityEnd(r) ==
    IF \E i \in 3..Len(r) : r[i] \in {"/", "?", "#"}
    THEN (CHOOSE i \in 3..Len(r) :
            r[i] \in {"/", "?", "#"} /\ \A j \in 3..(i - 1) : r[j] \notin {"/", "?", "#"}) - 1
    ELSE Len(r)

HasAuthority(r) == Len(r) >= 2 /\ r[1] = "/" /\ r[2] = "/"

HostOf(r) == SubSeq(r, 3, AuthorityEnd(r))

\* a character that an opaque host holds as it is: the model covers hosts of letters,
\* digits, '.', '-' and '_', with no user info and no port
IsHostChar(c) == IsAlpha(c) \/ IsDigit(c) \/ c \in {".", "-", "_"}

\* a character that path, query and fragment hold as it is (no percent-encoding)
IsPlainChar(c) == Code(c) > 32 /\ Code(c) < 127 /\ c \notin {"\"", "<", ">", "<60>", "#", "{", "}", "'"}

\* SqrlUrl::parse succeeds: Url::parse succeeds, the scheme is sqrl, and there is a domain
IsSqrlUrl(url) ==
    LET u == UrlInput(url)
    IN  /\ HasScheme(u)
        /\ SchemeOf(u) = SQRL_PROTOCOL
        /\ HasAuthority(AfterScheme(u))
        /\ HostOf(AfterScheme(u)) # <<>>
        /\ \A i \in 1..Len(HostOf(AfterScheme(u))) : IsHostChar(HostOf(AfterScheme(u))[i])
        /\ \A i \in 1..Len(AfterScheme(u)) : IsPlainChar(AfterScheme(u)[i])

\* SqrlUrl::parse: the url is kept as the url crate serialises it
SqrlUrlParse(url) ==
    IF IsSqrlUrl(url)
    THEN Ok([url |-> SchemeOf(UrlInput(url)) \o <<":">> \o AfterScheme(UrlInput(url))])
    ELSE Err("Invalid sqrl url")

\* impl fmt::Display for SqrlUrl
SqrlUrlDisplay(sqrl_url) == sqrl_url.url

\* ServerData::from_base64
ServerDataFromBase64(base64_string, checks) ==
    IF ~IsBase64(base64_string) THEN Err("base64::DecodeError")
    ELSE IF ~IsUtf8(Base64Decode(base64_string)) THEN Err("FromUtf8Error")
    ELSE LET data == FromUtf8(Base64Decode(base64_string))
             server_response == ServerResponseFromStr(data, checks)
         IN  IF SqrlUrlParse(data).kind = "Ok"
             THEN Ok([kind |-> "Url", url |-> SqrlUrlParse(data).val])
             ELSE IF server_response.kind = "Ok"
             THEN Ok([kind |-> "ServerResponse",
                      server_response |-> server_response.val,
                      original_response |-> base64_string])
             ELSE IF server_response.kind = "Panic" THEN Panic
             ELSE Err("Invalid server data")

\* ServerData::to_base64 were the text of a response written anew from its fields
ServerDataToBase64Rederived(sd) ==
    IF sd.kind = "Url" THEN Base64Encode(AsBytes(SqrlUrlDisplay(sd.url)))
    ELSE CHOOSE t \in ServerResponseToBase64(sd.server_response) : TRUE

\* ServerData::to_base64
ServerDataToBase64(sd) ==
    IF sd.kind = "Url" THEN Base64Encode(AsBytes(SqrlUrlDisplay(sd.url)))
    ELSE sd.original_response

\* impl fmt::Display for ServerData
ServerDataDisplay(sd) ==
    IF sd.kind = "Url" THEN SqrlUrlDisplay(sd.url) ELSE sd.original_response

(***************************************************************************)
(* ClientRequest                                                           *)
(***************************************************************************)
\* the keys used for encoding ClientRequest
CLIENT_PARAMETERS_KEY == <<"c", "l", "i", "e", "n", "t">>
SERVER_DATA_KEY == <<"s", "e", "r", "v", "e", "r">>
IDENTITY_SIGNATURE_KEY == <<"i", "d", "s">>
PREVIOUS_IDENTITY_SIGNATURE_KEY == <<"p", "i", "d", "s">>
UNLOCK_REQUEST_SIGNATURE_KEY == <<"u", "r", "s">>

\* ClientRequest::from_query_string
FromQueryString(query_string, checks) ==
    LET map == ParseQueryData(query_string)
        client == GetOrError(map.val, CLIENT_PARAMETERS_KEY,
                             "Invalid client request: No client parameters")
        client_params == ClientParametersFromBase64(client.val, checks)
        server == GetOrError(map.val, SERVER_DATA_KEY, "Invalid client request: No server value")
        server_data == ServerDataFromBase64(server.val, checks)
        ids == GetOrError(map.val, IDENTITY_SIGNATURE_KEY, "Invalid client request: No ids value")
        identity_signature == DecodeSignature(ids.val)
        pids == Get(map.val, PREVIOUS_IDENTITY_SIGNATURE_KEY)
    IN  IF map.kind # "Ok" THEN map
        ELSE IF client.kind # "Ok" THEN client
        ELSE IF client_params.kind # "Ok" THEN client_params
        ELSE IF server.kind # "Ok" THEN server
        ELSE IF server_data.kind # "Ok" THEN server_data
        ELSE IF ids.kind # "Ok" THEN ids
        ELSE IF identity_signature.kind # "Ok" THEN identity_signature
        ELSE IF pids # None /\ DecodeSignature(pids.val).kind # "Ok"
        THEN DecodeSignature(pids.val)
        ELSE Ok([client_params |-> client_params.val,
                 server_data |-> server_data.val,
                 identity_signature |-> identity_signature.val,
                 previous_identity_signature |->
                     IF pids = None THEN None ELSE Some(DecodeSignature(pids.val).val),
                 unlock_request_signature |-> Get(map.val, UNLOCK_REQUEST_SIGNATURE_KEY)])

\* ClientRequest::to_query_string: every text the call may return
ToQueryString(r) ==
    {CLIENT_PARAMETERS_KEY \o <<"=">> \o client
     \o <<"&">> \o SERVER_DATA_KEY \o <<"=">> \o ServerDataDisplay(r.server_data)
     \o <<"&">> \o IDENTITY_SIGNATURE_KEY \o <<"=">> \o Base64Encode(r.identity_signature)
     \o (IF r.previous_identity_signature = None THEN <<>>
         ELSE <<"&">> \o PREVIOUS_IDENTITY_SIGNATURE_KEY \o <<"=">>
              \o Base64Encode(r.previous_identity_signature.val))
     \o (IF r.unlock_request_signature = None THEN <<>>
         ELSE <<"&">> \o UNLOCK_REQUEST_SIGNATURE_KEY \o <<"=">>
              \o Base64Encode(AsBytes(r.unlock_request_signature.val)))
     : client \in ClientParametersToBase64(r.client_params)}

\* ClientRequest::get_signed_string were the two parts joined as in a query string
GetSignedStringSeparated(r) ==
    {client \o <<"&">> \o ServerDataToBase64(r.server_data)
     : client \in ClientParametersToBase64(r.client_params)}

\* ClientRequest::get_signed_string: every text the call may return
GetSignedString(r) ==
    {client \o ServerDataToBase64(r.server_data)
     : client \in ClientParametersToBase64(r.client_params)}

Unit == <<>>

FirstError(results) ==
    IF \E i \in 1..Len(results) : results[i].kind # "Ok"
    THEN results[CHOOSE i \in 1..Len(results) :
                    results[i].kind # "Ok" /\ \A j \in 1..(i - 1) : results[j].kind = "Ok"]
    ELSE Ok(Unit)

\* ClientRequest::validate, with the sign of one direction of the pids/pidk check lost
PreviousIdentityOneWay(r) ==
    IF r.previous_identity_signature # None /\ r.client_params.previous_identity_key = None
    THEN Err("Previous identity signature set, but no previous identity key set")
    ELSE Ok(Unit)

\* ClientRequest::validate: if the pik is set the pids must also (and vice-versa)
CheckPreviousIdentity(r) ==
    IF r.previous_identity_signature # None /\ r.client_params.previous_identity_key = None
    THEN Err("Previous identity signature set, but no previous identity key set")
    ELSE IF r.previous_identity_signature = None /\ r.client_params.previous_identity_key # None
    THEN Err("Previous identity key set, but no previous identity signature")
    ELSE Ok(Unit)

\* ClientRequest::validate, were urs asked of every command
UnlockRequestEveryCommand(r) ==
    IF r.unlock_request_signature = None
    THEN Err("When attempting to enable identity, unlock request signature (urs) must be set")
    ELSE Ok(Unit)

\* ClientRequest::validate: if the enable or remove commands are set, the unlock request
\* signature must also be set
CheckUnlockRequest(r) ==
    IF /\ r.client_params.command \in {"Enable", "Remove"}
       /\ r.unlock_request_signature = None
    THEN Err("When attempting to enable identity, unlock request signature (urs) must be set")
    ELSE Ok(Unit)

HasCurrentIdMatch(flags) == \E i \in 1..Len(flags) : flags[i] = "CurrentIdMatch"

\* ClientRequest::validate, were the unlock keys asked whatever the server data
UnlockKeysAlways(r) ==
    IF r.client_params.server_unlock_key = None
    THEN Err("If attempting to re-enable identity (cmd=enable), must include server unlock key (suk)")
    ELSE IF r.client_params.verify_unlock_key = None
    THEN Err("If attempting to re-enable identity (cmd=enable), must include verify unlock key (vuk)")
    ELSE Ok(Unit)

\* ClientRequest::validate: after a server response without CurrentIdMatch the request
\* carries suk and vuk
CheckUnlockKeys(r) ==
    IF /\ r.server_data.kind = "ServerResponse"
       /\ ~HasCurrentIdMatch(r.server_data.server_response.transaction_indication_flags)
    THEN IF r.client_params.server_unlock_key = None
         THEN Err("If attempting to re-enable identity (cmd=enable), must include server unlock key (suk)")
         ELSE IF r.client_params.verify_unlock_key = None
         THEN Err("If attempting to re-enable identity (cmd=enable), must include verify unlock key (vuk)")
         ELSE Ok(Unit)
    ELSE Ok(Unit)

\* ClientParameters::validate
ClientParametersValidate(cp) == Ok(Unit)

\* ClientRequest::validate, were the unlock keys checked before the signatures
ValidateUnlockKeysFirst(r) ==
    FirstError(<<ClientParametersValidate(r.client_params), CheckUnlockKeys(r),
                 CheckUnlockRequest(r), CheckPreviousIdentity(r)>>)

\* ClientRequest::validate
Validate(r) ==
    FirstError(<<ClientParametersValidate(r.client_params), CheckPreviousIdentity(r),
                 CheckUnlockRequest(r), CheckUnlockKeys(r)>>)

(***************************************************************************)
(* Version strings handed to ProtocolVersion::new                          *)
(***************************************************************************)
\* the most comma-separated tokens in a version string
MaxTokens == 2

\* the most tokens in the version strings of the two negotiating sides
MaxSelfTokens == 2

MaxOtherTokens == 1

RangeToken(low, high) == ToDecimal(low) \o <<"-">> \o ToDecimal(high)

Tokens(bare, lows, highs) ==
    {ToDecimal(n) : n \in bare} \cup {RangeToken(l, h) : l \in lows, h \in highs}

\* the strings of 1..n tokens joined by ','
TokenStrings(tokens, n) ==
    UNION {{Join(ts, <<",">>) : ts \in [1..k -> tokens]} : k \in 1..n}

\* in and out of range integers and ranges, and strings that are no list of them
AnyVersionStrings ==
    TokenStrings(Tokens({0, 1, 2, 3, 128, 129, 255, 256}, {0, 1, 3, 128}, {1, 3, 128, 129, 255}),
                 MaxTokens)
    \cup {<<>>, <<"x">>, <<"1", ",">>, <<"-", "5">>, <<"+", "1">>, <<"1", "-", "2", "-", "3">>,
          <<"1", "-">>, <<"0", "0", "7">>}

NegotiationTokens == Tokens({1, 2, 128}, {1, 2}, {2, 128})

\* the most tokens in a version string of ascending tokens
MaxDisplayTokens == 4

\* integers and ranges within 1..128, as <<low, high>>
DisplayPieces ==
    {<<v, v>> : v \in {1, 2, 3, 5, 6, 7, 127, 128}}
    \cup {<<1, 2>>, <<1, 3>>, <<2, 3>>, <<5, 7>>, <<6, 7>>, <<3, 127>>, <<126, 128>>, <<127, 128>>,
          <<1, 128>>}

\* the lists of at most n pieces, each one above the one before it
RECURSIVE AscendingPieces(_)
AscendingPieces(n) ==
    IF n = 0 THEN {<<>>}
    ELSE AscendingPieces(n - 1)
         \cup {Append(x[1], x[2]) :
                 x \in {y \in AscendingPieces(n - 1) \X DisplayPieces :
                           y[1] = <<>> \/ y[2][1] > y[1][Len(y[1])][2]}}

PieceText(t) == IF t[1] = t[2] THEN ToDecimal(t[1]) ELSE RangeToken(t[1], t[2])

\* version strings of disjoint ascending integers and ranges within 1..128
AscendingVersionStrings ==
    {Join([i \in 1..Len(s) |-> PieceText(s[i])], <<",">>) :
        s \in AscendingPieces(MaxDisplayTokens) \ {<<>>}}

InitVersion ==
    /\ overflow_checks \in BOOLEAN
    /\ \/ /\ versions \in {Some(s) : s \in AnyVersionStrings \cup AscendingVersionStrings}
          /\ other_versions = None
       \/ /\ versions \in {Some(s) : s \in TokenStrings(NegotiationTokens, MaxSelfTokens)}
          /\ other_versions \in {Some(s) : s \in TokenStrings(NegotiationTokens, MaxOtherTokens)}
    /\ prot = None
    /\ other = None
    /\ matched = None
    /\ request = None
    /\ validated = None
    /\ signed = <<>>
    /\ wire = None
    /\ parsed = None
    /\ params = None
    /\ response = None
    /\ encoded = <<>>
    /\ shown = None
    /\ reparsed = None
    /\ matched_back = None
    /\ tif_flags = None
    /\ tif_string = None

\* let prot = ProtocolVersion::new(versions)
New ==
    /\ versions # None
    /\ prot = None
    /\ prot' = ProtocolVersionNew(versions.val, overflow_checks)
    /\ UNCHANGED <<overflow_checks, tifVars, versions, other_versions, other, matched,
                   request, validated, signed, wire, parsed,
                   blockVars, viewVars>>

\* let other = ProtocolVersion::new(other_versions)
NewOther ==
    /\ other_versions # None
    /\ prot # None
    /\ other = None
    /\ other' = ProtocolVersionNew(other_versions.val, overflow_checks)
    /\ UNCHANGED <<overflow_checks, tifVars, versions, prot, other_versions, matched,
                   request, validated, signed, wire, parsed,
                   blockVars, viewVars>>

\* prot.get_max_matching_version(&other), both sets having been constructed
Match ==
    /\ prot.kind = "Ok"
    /\ other.kind = "Ok"
    /\ matched = None
    /\ matched' = GetMaxMatchingVersion(prot, other, overflow_checks)
    /\ UNCHANGED <<overflow_checks, tifVars, versions, prot, other_versions, other,
                   request, validated, signed, wire, parsed,
                   blockVars, viewVars>>

\* other.get_max_matching_version(&prot), the same two sets the other way round
MatchBack ==
    /\ prot.kind = "Ok"
    /\ other.kind = "Ok"
    /\ matched_back = None
    /\ matched_back' = GetMaxMatchingVersion(other, prot, overflow_checks)
    /\ UNCHANGED <<overflow_checks, tifVars, versions, prot, other_versions, other, matched,
                   request, validated, signed, wire, parsed,
                   blockVars, shown, reparsed>>

\* let shown = prot.to_string()
Show ==
    /\ prot.kind = "Ok"
    /\ shown = None
    /\ shown' = Some(ProtocolVersionDisplay(prot))
    /\ UNCHANGED <<overflow_checks, tifVars, versions, prot, other_versions, other, matched,
                   request, validated, signed, wire, parsed,
                   blockVars, reparsed, matched_back>>

\* let reparsed = ProtocolVersion::new(&shown)
Reparse ==
    /\ shown # None
    /\ reparsed = None
    /\ reparsed' = ProtocolVersionNew(shown.val, overflow_checks)
    /\ UNCHANGED <<overflow_checks, tifVars, versions, prot, other_versions, other, matched,
                   request, validated, signed, wire, parsed,
                   blockVars, shown, matched_back>>

NextVersion == New \/ NewOther \/ Match \/ MatchBack \/ Show \/ Reparse

SpecVersion == InitVersion /\ [][NextVersion]_vars

(***************************************************************************)
(* Properties of ProtocolVersion                                           *)
(***************************************************************************)
\* the versions a bitmask stands for: bit v-1 is version v
Supported(p) == {b + 1 : b \in p.versions}

SetMax(S) == CHOOSE m \in S : \A x \in S : x <= m

\* the set is one over the versions 1..128
InRange(p) == p.kind = "Ok" /\ p.max_version \in 1..MaskBits /\ Supported(p) \subseteq 1..MaskBits

\* C2: for two successfully constructed sets over versions 1..128,
\* get_max_matching_version returns the greatest version in both sets when
\* there is one, and an error exactly when the sets have no version in common.
C2_MaxMatchingVersion ==
    (matched # None /\ InRange(prot) /\ InRange(other)) =>
        LET common == Supported(prot) \cap Supported(other)
        IN  IF common = {} THEN matched.kind = "Err"
            ELSE matched = [kind |-> "Ok", version |-> SetMax(common)]

\* C17: negotiation is symmetric: for successfully constructed A and B,
\* A.get_max_matching_version(B) and B.get_max_matching_version(A) both return
\* the same version, or both return an error.
C17_NegotiationSymmetric ==
    (matched # None /\ matched_back # None) =>
        \/ matched.kind = "Ok" /\ matched_back = matched
        \/ matched.kind = "Err" /\ matched_back.kind = "Err"

\* the comma-separated tokens of a version string
VersionTokens(s) == LET subs == Split(s, ",") IN {subs[i] : i \in 1..Len(subs)}

IsNumber(t) == t # <<>> /\ \A i \in 1..Len(t) : IsDigit(t[i])

\* a bare integer token outside 1..128
BadBareToken(t) ==
    IsNumber(t) /\ (DigitsValue(t) = 0 \/ DigitsValue(t) > MaskBits)

BadRangeToken(t) ==
    /\ Contains(t, "-")
    /\ LET parts == Split(t, "-")
       IN  /\ Len(parts) = 2
           /\ IsNumber(parts[1])
           /\ IsNumber(parts[2])
           /\ ~ (/\ DigitsValue(parts[1]) < DigitsValue(parts[2])
                 /\ DigitsValue(parts[1]) >= 1
                 /\ DigitsValue(parts[2]) <= MaskBits)

\* C5: ProtocolVersion::new returns an error for every range token low-high
\* unless low < high and both ends lie in 1..128; it does not panic or wrap.
C5_RangeOutOfRange ==
    (prot # None /\ \E t \in VersionTokens(versions.val) : BadRangeToken(t)) => prot.kind = "Err"

\* the ends of a token: of "low-high", or of a bare integer
TokenLow(t) == DigitsValue(Split(t, "-")[1])

TokenHigh(t) == DigitsValue(Split(t, "-")[Len(Split(t, "-"))])

\* a bare integer within 1..128, or a range low-high within 1..128 with low < high
GoodToken(t) ==
    /\ Len(Split(t, "-")) \in 1..2
    /\ \A i \in 1..Len(Split(t, "-")) : IsNumber(Split(t, "-")[i])
    /\ TokenLow(t) >= 1
    /\ TokenHigh(t) <= MaskBits
    /\ Contains(t, "-") => TokenLow(t) < TokenHigh(t)

\* a version string of disjoint ascending integers and ranges within 1..128
IsAscendingSpec(s) ==
    LET subs == Split(s, ",")
    IN  /\ \A i \in 1..Len(subs) : GoodToken(subs[i])
        /\ \A i \in 1..(Len(subs) - 1) : TokenHigh(subs[i]) < TokenLow(subs[i + 1])

\* the versions such a string lists
Listed(s) == UNION {TokenLow(t)..TokenHigh(t) : t \in VersionTokens(s)}

\* the maximal runs of consecutive versions of a set, by their first version
RunStarts(S) == {v \in S : v - 1 \notin S}

RunEnd(S, v) == CHOOSE e \in S : e >= v /\ (v..e) \subseteq S /\ e + 1 \notin S

RunText(S, v) ==
    IF RunEnd(S, v) = v THEN ToDecimal(v) ELSE ToDecimal(v) \o <<"-">> \o ToDecimal(RunEnd(S, v))

\* the minimal canonical form: the runs ascending, joined by ","
Canonical(S) ==
    LET ordered == CHOOSE f \in [1..Cardinality(RunStarts(S)) -> RunStarts(S)] :
                       \A i, j \in DOMAIN f : i < j => f[i] < f[j]
    IN  Join([k \in DOMAIN ordered |-> RunText(S, ordered[k])], <<",">>)

\* C18: for a version string of disjoint ascending integers and ranges within
\* 1..128, Display of the constructed set is the minimal canonical form: every
\* maximal run of two or more consecutive versions as "low-high", every isolated
\* version as "v", ascending and joined by ",", also for runs that end at the
\* maximum version and for sets that hold 128.
C18_DisplayCanonical ==
    (versions # None /\ IsAscendingSpec(versions.val)) =>
        /\ prot # None => prot.kind = "Ok"
        /\ shown # None => shown.val = Canonical(Listed(versions.val))

\* "1,2,6,7" was constructed and shown as "1-2,6-7"
C18_Witness ==
    /\ versions = Some(<<"1", ",", "2", ",", "6", ",", "7">>)
    /\ shown = Some(<<"1", "-", "2", ",", "6", "-", "7">>)

\* C19: for every successfully constructed x, ProtocolVersion::new(x.to_string())
\* succeeds and equals x: the same bitmask and the same max_version.
C19_DisplayRoundTrip ==
    reparsed # None => reparsed = prot

\* the versions a version string lists, whatever their values: those of its bare
\* integers and of the ranges low-high with low < high
ListedAnywhere(s) ==
    UNION {IF Contains(t, "-") THEN ParseUInt(Split(t, "-")[1])..ParseUInt(Split(t, "-")[2])
           ELSE {ParseUInt(t)} : t \in VersionTokens(s)}

\* C20: a value returned by a successful ProtocolVersion::new has bit v-1 set
\* exactly for the versions v listed in the input, as bare integers or inside
\* ranges, every listed version lies in 1..128, and max_version is the number
\* of the highest set bit.
C20_BitmaskInvariant ==
    (prot # None /\ prot.kind = "Ok") =>
        /\ Supported(prot) = ListedAnywhere(versions.val)
        /\ ListedAnywhere(versions.val) \subseteq 1..MaskBits
        /\ prot.max_version = SetMax(Supported(prot))

\* a token of more than two parts low-high-...
HasExtraParts(t) == Len(Split(t, "-")) > 2

\* C27: ProtocolVersion::new accepts a token only when it is a bare integer or
\* low-high with exactly one '-': a token of more than two '-'-separated parts,
\* such as "1-2-3", makes new return an error; no part of a token is ignored.
C27_ExtraRangeParts ==
    (prot # None /\ \E t \in VersionTokens(versions.val) : HasExtraParts(t)) =>
        prot.kind = "Err"

(***************************************************************************)
(* Client requests: those a caller builds, and the texts a server receives *)
(***************************************************************************)
\* the ClientRequest fields a caller may fill
PROTOCOL_VERSIONS == <<"1">>

\* ClientParameters::new
ClientParametersNew(command, identity_key) ==
    [protocol_version |-> ProtocolVersionNew(PROTOCOL_VERSIONS, TRUE),
     command |-> command,
     identity_key |-> identity_key,
     options |-> None,
     button |-> None,
     previous_identity_key |-> None,
     index_secret |-> None,
     previous_index_secret |-> None,
     server_unlock_key |-> None,
     verify_unlock_key |-> None]

\* ClientRequest::new
ClientRequestNew(client_params, server_data, identity_signature) ==
    [client_params |-> client_params,
     server_data |-> server_data,
     identity_signature |-> identity_signature,
     previous_identity_signature |-> None,
     unlock_request_signature |-> None]

\* the keys and the signature of the crate's tests
IdentityKey ==
    Base64Decode(<<"i", "g", "g", "c", "u", "_", "e", "-", "t", "W", "q", "3", "s", "o", "g", "a", "a", "2", "a", "A", "D", "C", "s", "x", "R", "Z", "E", "D", "9", "o", "n", "9", "H", "7", "1", "6", "T", "A", "y", "P", "R", "0", "w">>)

PreviousIdentityKey ==
    Base64Decode(<<"E", "6", "Q", "s", "2", "g", "X", "7", "W", "-", "P", "w", "i", "9", "Y", "3", "K", "A", "m", "b", "k", "u", "Y", "j", "L", "S", "W", "X", "C", "t", "K", "y", "B", "c", "y", "m", "W", "l", "o", "H", "A", "u", "o">>)

IdentitySignature ==
    Base64Decode(<<"h", "c", "X", "W", "T", "P", "x", "3", "E", "g", "P", "9", "R", "_", "A", "j", "t", "o", "C", "I", "r", "i", "e", "_", "Y", "g", "Z", "x", "V", "D", "7", "2", "n", "d", "5", "_", "p", "j", "M", "O", "n", "h", "U", "E", "Y", "m", "h", "d", "j", "L", "U", "Y", "s", "3", "j", "j", "c", "J", "T", "_", "G", "Q", "u", "z", "N", "K", "X", "y", "A", "w", "Y", "1", "n", "s", "1", "R", "6", "Q", "J", "n", "1", "Y", "K", "z", "C", "A">>)

UnlockKey == <<"B", "M", "F", "D", "m", "7", "b", "P", "l", "s", "Q", "o", "j", "u", "J", "s", "o", "D", "T", "v", "l", "S", "1", "M", "c", "n", "w", "g", "S", "c", "v", "k", "t", "F", "8", "4", "v", "L", "j", "s", "c", "G", "k">>

UnlockRequestSignature == <<"d", "X", "J", "z", "L", "X", "N", "p", "Z", "2", "5", "h", "d", "H", "V", "y", "Z", "Q">>

\* the largest tif value of the server responses a request answers
MaxTif == 2

\* a server response as the server wrote it, with the given tif value
ServerResponseText(tif) ==
    <<"v", "e", "r", "=", "1">> \o <<"\r", "\n">> \o <<"n", "u", "t", "=", "1", "W", "M", "9", "l", "f", "F", "1", "S", "T", "-", "z">> \o <<"\r", "\n">>
    \o <<"t", "i", "f", "=">> \o ToDecimal(tif) \o <<"\r", "\n">> \o <<"q", "r", "y", "=", "/", "c", "l", "i", ".", "s", "q", "r", "l">> \o <<"\r", "\n">>

SqrlUrlText == <<"s", "q", "r", "l", ":", "/", "/", "s", "q", "r", "l", ".", "s", "t", "e", "v", "e", ".", "c", "o", "m", "/", "c", "l", "i", ".", "s", "q", "r", "l", "?", "n", "u", "t", "=", "e", "7", "w", "e", "6", "w", "C", "t", "o", "S", "x", "l">>

\* the server data of a first request, and of a request that answers a server response
UrlServerData == ServerDataFromBase64(Base64Encode(AsBytes(SqrlUrlText)), TRUE).val

ResponseServerData(tif) ==
    ServerDataFromBase64(Base64Encode(AsBytes(ServerResponseText(tif))), TRUE).val

ServerDatas == {UrlServerData} \cup {ResponseServerData(tif) : tif \in 0..MaxTif}

Optional(v) == {None, Some(v)}

\* a request with the given fields filled
BuildRequest(command, pidk, suk, vuk, server_data, pids, urs) ==
    [ClientRequestNew([ClientParametersNew(command, IdentityKey)
                           EXCEPT !.previous_identity_key = pidk,
                                  !.server_unlock_key = suk,
                                  !.verify_unlock_key = vuk],
                      server_data, IdentitySignature)
        EXCEPT !.previous_identity_signature = pids,
               !.unlock_request_signature = urs]

\* the requests handed to validate: every command, every combination of optional fields
ValidateRequests ==
    {BuildRequest(command, pidk, suk, vuk, server_data, pids, urs) :
        command \in ClientCommands,
        pidk \in Optional(PreviousIdentityKey),
        suk \in Optional(UnlockKey),
        vuk \in Optional(UnlockKey),
        server_data \in ServerDatas,
        pids \in Optional(IdentitySignature),
        urs \in Optional(UnlockRequestSignature)}

InitValidate ==
    /\ overflow_checks \in BOOLEAN
    /\ request \in {Some(r) : r \in ValidateRequests}
    /\ versions = None
    /\ prot = None
    /\ other_versions = None
    /\ other = None
    /\ matched = None
    /\ validated = None
    /\ signed = <<>>
    /\ wire = None
    /\ parsed = None
    /\ params = None
    /\ response = None
    /\ encoded = <<>>
    /\ shown = None
    /\ reparsed = None
    /\ matched_back = None
    /\ tif_flags = None
    /\ tif_string = None

\* let validated = request.validate()
CallValidate ==
    /\ request # None
    /\ validated = None
    /\ validated' = Validate(request.val)
    /\ UNCHANGED <<overflow_checks, tifVars, versions, prot, other_versions, other, matched,
                   request, signed, wire, parsed,
                   blockVars, viewVars>>

NextValidate == CallValidate

SpecValidate == InitValidate /\ [][NextValidate]_vars

\* the calls of get_signed_string on one request
MaxCalls == 2

\* the requests that are serialised: structurally valid, with and without a previous
\* identity (pidk and pids together), with and without urs, with either server data
CodecRequests ==
    {BuildRequest(command, pidk, None, None, server_data,
                  IF pidk = None THEN None ELSE Some(IdentitySignature), urs) :
        command \in {"Query", "Enable"},
        pidk \in Optional(PreviousIdentityKey),
        server_data \in {UrlServerData, ResponseServerData(1)},
        urs \in Optional(UnlockRequestSignature)}

\* what get_signed_string and to_query_string may return for each of these requests
SignedStrings == [r \in CodecRequests |-> GetSignedString(r)]

QueryStrings == [r \in CodecRequests |-> ToQueryString(r)]

\* the cmd values of the client parameters a server receives
ReceivedCommands ==
    {<<"q", "u", "e", "r", "y">>, <<"i", "d", "e", "n", "t">>, <<"d", "i", "s", "a", "b", "l", "e">>, <<"e", "n", "a", "b", "l", "e">>, <<"r", "e", "m", "o", "v", "e">>, <<"b", "o", "g", "u", "s">>, <<"Q", "u", "e", "r", "y">>, <<"q", "u", "e", "r">>, <<>>}

\* the client parameters a client wrote with the given cmd value
ReceivedParameters(cmd) ==
    <<"v", "e", "r", "=", "1">> \o <<"\r", "\n">> \o <<"c", "m", "d", "=">> \o cmd \o <<"\r", "\n">>
    \o <<"i", "d", "k", "=">> \o Base64Encode(IdentityKey) \o <<"\r", "\n">>

\* the query strings a server receives
ReceivedQueryStrings ==
    {CLIENT_PARAMETERS_KEY \o <<"=">> \o Base64Encode(AsBytes(ReceivedParameters(cmd)))
     \o <<"&">> \o SERVER_DATA_KEY \o <<"=">> \o ServerDataToBase64(server_data)
     \o <<"&">> \o IDENTITY_SIGNATURE_KEY \o <<"=">> \o Base64Encode(IdentitySignature)
     : cmd \in ReceivedCommands, server_data \in {UrlServerData, ResponseServerData(1)}}

InitRequest ==
    /\ overflow_checks \in BOOLEAN
    /\ \/ /\ request \in {Some(r) : r \in CodecRequests}
          /\ wire = None
       \/ /\ request = None
          /\ wire \in {Some(q) : q \in ReceivedQueryStrings}
    /\ versions = None
    /\ prot = None
    /\ other_versions = None
    /\ other = None
    /\ matched = None
    /\ validated = None
    /\ signed = <<>>
    /\ parsed = None
    /\ params = None
    /\ response = None
    /\ encoded = <<>>
    /\ shown = None
    /\ reparsed = None
    /\ matched_back = None
    /\ tif_flags = None
    /\ tif_string = None

\* signed.push(request.get_signed_string())
CallGetSignedString ==
    /\ request # None
    /\ wire = None
    /\ Len(signed) < MaxCalls
    /\ \E s \in SignedStrings[request.val] : signed' = Append(signed, s)
    /\ UNCHANGED <<overflow_checks, tifVars, versions, prot, other_versions, other, matched,
                   request, validated, wire, parsed,
                   blockVars, viewVars>>

\* let wire = request.to_query_string()
CallToQueryString ==
    /\ request # None
    /\ signed = <<>>
    /\ wire = None
    /\ \E q \in QueryStrings[request.val] : wire' = Some(q)
    /\ UNCHANGED <<overflow_checks, tifVars, versions, prot, other_versions, other, matched,
                   request, validated, signed, parsed,
                   blockVars, viewVars>>

\* let parsed = ClientRequest::from_query_string(wire)
CallFromQueryString ==
    /\ wire # None
    /\ parsed = None
    /\ parsed' = FromQueryString(wire.val, overflow_checks)
    /\ UNCHANGED <<overflow_checks, tifVars, versions, prot, other_versions, other, matched,
                   request, validated, signed, wire,
                   blockVars, viewVars>>

\* signed.push(parsed.get_signed_string()), of the request a server parsed
CallGetSignedStringOfParsed ==
    /\ request = None
    /\ parsed.kind = "Ok"
    /\ Len(signed) < MaxCalls
    /\ \E s \in GetSignedString(parsed.val) : signed' = Append(signed, s)
    /\ UNCHANGED <<overflow_checks, tifVars, versions, prot, other_versions, other, matched,
                   request, validated, wire, parsed,
                   blockVars, viewVars>>

NextRequest ==
    \/ CallGetSignedString
    \/ CallToQueryString
    \/ CallFromQueryString
    \/ CallGetSignedStringOfParsed

SpecRequest == InitRequest /\ [][NextRequest]_vars

(***************************************************************************)
(* Client parameters: the values a client builds and serialises            *)
(***************************************************************************)
\* the optional fields of a ClientParameters value that are set at once, at most
MaxPresent == 1

\* values of the Option<String> fields: empty, plain, and ending in a space
StringValues == {<<>>, <<"a", " ", "b">>, <<"a", "b", " ">>}

\* an optional field of ClientParameters together with a value for it
OptionalFieldValues ==
    {<<"options", Some(o)>> :
        o \in {<<>>, <<"NoIPTest">>, <<"ClientProvidedSession", "ServerUnlockKey">>}}
    \cup {<<"button", Some(b)>> : b \in {0, 1, U8Max}}
    \cup {<<"previous_identity_key", Some(PreviousIdentityKey)>>}
    \cup {<<f, Some(v)>> :
            f \in {"index_secret", "previous_index_secret",
                   "server_unlock_key", "verify_unlock_key"},
            v \in StringValues}

\* ClientParameters::new followed by at most n assignments to optional fields
RECURSIVE ParameterValues(_)
ParameterValues(n) ==
    IF n = 0 THEN {ClientParametersNew(command, IdentityKey) : command \in ClientCommands}
    ELSE ParameterValues(n - 1)
         \cup {[x EXCEPT ![f[1]] = f[2]] :
                 x \in ParameterValues(n - 1), f \in OptionalFieldValues}

InitParams ==
    /\ overflow_checks \in BOOLEAN
    /\ params \in {Some(x) : x \in ParameterValues(MaxPresent)}
    /\ versions = None
    /\ prot = None
    /\ other_versions = None
    /\ other = None
    /\ matched = None
    /\ request = None
    /\ validated = None
    /\ signed = <<>>
    /\ wire = None
    /\ parsed = None
    /\ response = None
    /\ encoded = <<>>
    /\ shown = None
    /\ reparsed = None
    /\ matched_back = None
    /\ tif_flags = None
    /\ tif_string = None

\* let wire = params.to_base64()
CallParamsToBase64 ==
    /\ params # None
    /\ wire = None
    /\ \E t \in ClientParametersToBase64(params.val) : wire' = Some(t)
    /\ UNCHANGED <<overflow_checks, tifVars, versions, prot, other_versions, other, matched,
                   request, validated, signed, parsed,
                   params, response, encoded, viewVars>>

\* let parsed = ClientParameters::from_base64(wire)
CallParamsFromBase64 ==
    /\ params # None
    /\ wire # None
    /\ parsed = None
    /\ parsed' = ClientParametersFromBase64(wire.val, overflow_checks)
    /\ UNCHANGED <<overflow_checks, tifVars, versions, prot, other_versions, other, matched,
                   request, validated, signed, wire,
                   blockVars, viewVars>>

NextParams == CallParamsToBase64 \/ CallParamsFromBase64

SpecParams == InitParams /\ [][NextParams]_vars

(***************************************************************************)
(* Server responses: the values a server builds and serialises             *)
(***************************************************************************)
\* ServerResponse::new
ServerResponseNew(nut, transaction_indication_flags, query_url) ==
    [protocol_version |-> ProtocolVersionNew(PROTOCOL_VERSIONS, TRUE),
     nut |-> nut,
     transaction_indication_flags |-> transaction_indication_flags,
     query_url |-> query_url,
     success_url |-> None,
     cancel_url |-> None,
     secret_index |-> None,
     server_unlock_key |-> None,
     ask |-> None]

\* the flag lists of the responses: none, one, two in the order of the enum, two in
\* the other order, one flag twice
FlagLists ==
    {<<>>, <<"CurrentIdMatch">>, <<"CurrentIdMatch", "IpsMatch">>,
     <<"IpsMatch", "CurrentIdMatch">>, <<"SqrlDisabled", "SqrlDisabled">>}

\* an optional field of ServerResponse together with a value for it, empty or not
ResponseFieldValues ==
    {<<"success_url", Some(<<"/", "o", "k">>)>>, <<"cancel_url", Some(<<>>)>>,
     <<"secret_index", Some(<<"a", " ", "b">>)>>, <<"server_unlock_key", Some(UnlockKey)>>,
     <<"ask", Some(<<>>)>>}

\* ServerResponse::new with each flag list, and with one optional field assigned
ResponseValues ==
    {ServerResponseNew(<<"1", "W", "M", "9", "l", "f", "F", "1", "S", "T", "-", "z">>, flags, <<"/", "c", "l", "i", ".", "s", "q", "r", "l">>) : flags \in FlagLists}
    \cup {[ServerResponseNew(<<"1", "W", "M", "9", "l", "f", "F", "1", "S", "T", "-", "z">>, <<"CurrentIdMatch">>, <<"/", "c", "l", "i", ".", "s", "q", "r", "l">>)
              EXCEPT ![f[1]] = f[2]] : f \in ResponseFieldValues}

\* what to_base64 may return for each of these values
ResponseTexts == [x \in ResponseValues |-> ServerResponseToBase64(x)]

InitResponse ==
    /\ overflow_checks \in BOOLEAN
    /\ response \in {Some(x) : x \in ResponseValues}
    /\ versions = None
    /\ prot = None
    /\ other_versions = None
    /\ other = None
    /\ matched = None
    /\ request = None
    /\ validated = None
    /\ signed = <<>>
    /\ wire = None
    /\ parsed = None
    /\ params = None
    /\ encoded = <<>>
    /\ shown = None
    /\ reparsed = None
    /\ matched_back = None
    /\ tif_flags = None
    /\ tif_string = None

\* encoded.push(response.to_base64())
CallResponseToBase64 ==
    /\ response # None
    /\ parsed = None
    /\ Len(encoded) < MaxCalls
    /\ \E t \in ResponseTexts[response.val] : encoded' = Append(encoded, t)
    /\ UNCHANGED <<overflow_checks, tifVars, versions, prot, other_versions, other, matched,
                   request, validated, signed, wire, parsed,
                   params, response, viewVars>>

\* let parsed = ServerResponse::from_base64(encoded.last())
CallResponseFromBase64 ==
    /\ response # None
    /\ encoded # <<>>
    /\ parsed = None
    /\ parsed' = ServerResponseFromBase64(encoded[Len(encoded)], overflow_checks)
    /\ UNCHANGED <<overflow_checks, tifVars, versions, prot, other_versions, other, matched,
                   request, validated, signed, wire,
                   blockVars, viewVars>>

NextResponse == CallResponseToBase64 \/ CallResponseFromBase64

SpecResponse == InitResponse /\ [][NextResponse]_vars

(***************************************************************************)
(* Server data: the base64 texts a server receives back                    *)
(***************************************************************************)
CrLf == <<"\r", "\n">>

\* the lines of a server response
VerLine(ver) == <<"v", "e", "r", "=">> \o ver \o CrLf

NutLine == <<"n", "u", "t", "=", "1", "W", "M", "9", "l", "f", "F", "1", "S", "T", "-", "z">> \o CrLf

TifLine(tif) == <<"t", "i", "f", "=">> \o tif \o CrLf

QryLine == <<"q", "r", "y", "=", "/", "c", "l", "i", ".", "s", "q", "r", "l">> \o CrLf

\* texts that are sqrl urls; the last one is also a well-formed server response,
\* once split at its line feeds
UrlTexts ==
    {<<"s", "q", "r", "l", ":", "/", "/", "t", "e", "s", "t", "u", "r", "l", ".", "c", "o", "m">>, <<"S", "Q", "R", "L", ":", "/", "/", "E", "x", "a", "m", "p", "l", "e", ".", "c", "o", "m", "/", "a", "u", "t", "h">>, SqrlUrlText,
     <<"s", "q", "r", "l", ":", "/", "/", "a", ".", "b", "/", "?", "x", "=", "1">> \o <<"\n">> \o VerLine(<<"1">>) \o NutLine \o TifLine(<<"1">>) \o QryLine}

\* texts that are server responses: the lines in several orders, several versions
\* and tif values, and every text to_string writes for a response without flags
ResponseLineTexts ==
    {VerLine(ver) \o NutLine \o TifLine(ToDecimal(tif)) \o QryLine :
        ver \in {<<"1">>, <<"1", "-", "2">>, <<"1", "2", "8">>}, tif \in 0..MaxTif}
    \cup {QryLine \o TifLine(<<"5">>) \o NutLine \o VerLine(<<"1">>),
          NutLine \o VerLine(<<"1">>) \o QryLine \o TifLine(<<"6", "5", "5", "3", "5">>) \o <<"a", "s", "k", "=">>}
    \cup ServerResponseDisplay(ServerResponseNew(<<"n">>, <<>>, <<"/", "q">>))

\* texts that are neither: other urls, incomplete or malformed responses, responses
\* whose version is out of range
OtherTexts ==
    {<<"h", "t", "t", "p", "s", ":", "/", "/", "g", "o", "o", "g", "l", "e", ".", "c", "o", "m">>, <<"s", "q", "r", "l", ":", "/", "/", "/", "c", "l", "i", ".", "s", "q", "r", "l">>, <<"s", "q", "r", "l", ":", "t", "e", "s", "t", "u", "r", "l", ".", "c", "o", "m">>, <<"s", "q", "r", "l">>, <<>>,
     NutLine \o TifLine(<<"1">>) \o QryLine,
     VerLine(<<"1">>) \o TifLine(<<"1">>) \o QryLine,
     VerLine(<<"1">>) \o NutLine \o QryLine,
     VerLine(<<"1">>) \o NutLine \o TifLine(<<"1">>),
     VerLine(<<"1">>) \o NutLine \o TifLine(<<"x">>) \o QryLine,
     VerLine(<<"1">>) \o NutLine \o TifLine(<<"6", "5", "5", "3", "6">>) \o QryLine,
     VerLine(<<"1">>) \o NutLine \o TifLine(<<"1">>) \o QryLine \o <<"a", "s", "k">>,
     VerLine(<<"0">>) \o NutLine \o TifLine(<<"1">>) \o QryLine,
     VerLine(<<"1", "2", "9">>) \o NutLine \o TifLine(<<"1">>) \o QryLine,
     VerLine(<<"2", "-", "1">>) \o NutLine \o TifLine(<<"1">>) \o QryLine,
     VerLine(<<"v", "1">>) \o NutLine \o TifLine(<<"1">>) \o QryLine}

\* the values of the server parameter: the base64 of these texts, and values that
\* are not base64 or not the base64 of UTF-8 text
ServerDataStrings ==
    {Base64Encode(AsBytes(t)) : t \in UrlTexts \cup ResponseLineTexts \cup OtherTexts}
    \cup {SqrlUrlText, <<"c", "3", "F", "y", " ", "b", "A">>, Base64Encode(<<255, 254>>)}

InitServerData ==
    /\ overflow_checks \in BOOLEAN
    /\ wire \in {Some(t) : t \in ServerDataStrings}
    /\ versions = None
    /\ prot = None
    /\ other_versions = None
    /\ other = None
    /\ matched = None
    /\ request = None
    /\ validated = None
    /\ signed = <<>>
    /\ parsed = None
    /\ params = None
    /\ response = None
    /\ encoded = <<>>
    /\ shown = None
    /\ reparsed = None
    /\ matched_back = None
    /\ tif_flags = None
    /\ tif_string = None

\* let parsed = ServerData::from_base64(wire)
CallServerDataFromBase64 ==
    /\ wire # None
    /\ request = None
    /\ parsed = None
    /\ parsed' = ServerDataFromBase64(wire.val, overflow_checks)
    /\ UNCHANGED <<overflow_checks, tifVars, versions, prot, other_versions, other, matched,
                   request, validated, signed, wire,
                   blockVars, viewVars>>

\* encoded.push(parsed.to_base64())
CallServerDataToBase64 ==
    /\ parsed # None
    /\ parsed.kind = "Ok"
    /\ Len(encoded) < MaxCalls
    /\ encoded' = Append(encoded, ServerDataToBase64(parsed.val))
    /\ UNCHANGED <<overflow_checks, tifVars, versions, prot, other_versions, other, matched,
                   request, validated, signed, wire, parsed,
                   params, response, viewVars>>

\* encoded.push(parsed.to_string())
CallServerDataDisplay ==
    /\ parsed # None
    /\ parsed.kind = "Ok"
    /\ Len(encoded) < MaxCalls
    /\ encoded' = Append(encoded, ServerDataDisplay(parsed.val))
    /\ UNCHANGED <<overflow_checks, tifVars, versions, prot, other_versions, other, matched,
                   request, validated, signed, wire, parsed,
                   params, response, viewVars>>

NextServerData ==
    CallServerDataFromBase64 \/ CallServerDataToBase64 \/ CallServerDataDisplay

SpecServerData == InitServerData /\ [][NextServerData]_vars

(***************************************************************************)
(* Status flags: tif values decoded and lists of flags encoded             *)
(***************************************************************************)
\* the ten flag bits together, 0x3FF: the greatest tif value with flag bits only
AllFlagBits == 1023

\* the most flags in a list that is encoded
MaxFlags == 2

\* the tif values a client receives: every combination of the ten flag bits,
\* values with higher bits set, other spellings of a number, and texts that are
\* no u16
TifStrings ==
    {ToDecimal(n) : n \in 0..AllFlagBits}
    \cup {ToDecimal(n) : n \in {1024, 1698, 2121, 32768, 64512, 65535}}
    \cup {<<"+", "5">>, <<"0", "0", "7">>, <<"6", "5", "5", "3", "6">>, <<"-", "1">>, <<"1", ".", "5">>, <<" ", "1">>, <<"x">>, <<>>}

\* the lists of at most n flags, in any order, with repeats
RECURSIVE FlagListsUpTo(_)
FlagListsUpTo(n) ==
    IF n = 0 THEN {<<>>}
    ELSE FlagListsUpTo(n - 1)
         \cup {Append(l, TIFValues[i].name) :
                 l \in FlagListsUpTo(n - 1), i \in 1..Len(TIFValues)}

InitTif ==
    /\ overflow_checks \in BOOLEAN
    /\ \/ /\ wire \in {Some(t) : t \in TifStrings}
          /\ tif_flags = None
       \/ /\ wire = None
          /\ tif_flags \in {Some(l) : l \in FlagListsUpTo(MaxFlags)}
    /\ tif_string = None
    /\ versions = None
    /\ prot = None
    /\ other_versions = None
    /\ other = None
    /\ matched = None
    /\ request = None
    /\ validated = None
    /\ signed = <<>>
    /\ parsed = None
    /\ params = None
    /\ response = None
    /\ encoded = <<>>
    /\ shown = None
    /\ reparsed = None
    /\ matched_back = None

\* let parsed = TIFValue::parse_str(wire)
CallParseStr ==
    /\ wire # None
    /\ parsed = None
    /\ parsed' = TIFParseStr(wire.val)
    /\ UNCHANGED <<overflow_checks, tifVars, versions, prot, other_versions, other, matched,
                   request, validated, signed, wire,
                   blockVars, viewVars>>

\* the tif value Display writes for the flags that were decoded
EncodeParsed ==
    /\ wire # None
    /\ parsed.kind = "Ok"
    /\ tif_string = None
    /\ tif_string' = Some(ToDecimal(TIFEncode(parsed.val)))
    /\ UNCHANGED <<overflow_checks, tif_flags, versions, prot, other_versions, other, matched,
                   request, validated, signed, wire, parsed,
                   blockVars, viewVars>>

\* the tif value Display writes for a list of flags
EncodeFlags ==
    /\ tif_flags # None
    /\ tif_string = None
    /\ tif_string' = Some(ToDecimal(TIFEncode(tif_flags.val)))
    /\ UNCHANGED <<overflow_checks, tif_flags, versions, prot, other_versions, other, matched,
                   request, validated, signed, wire, parsed,
                   blockVars, viewVars>>

\* let parsed = TIFValue::parse_str(tif_string), the value written for a list
DecodeEncoded ==
    /\ tif_flags # None
    /\ tif_string # None
    /\ parsed = None
    /\ parsed' = TIFParseStr(tif_string.val)
    /\ UNCHANGED <<overflow_checks, tifVars, versions, prot, other_versions, other, matched,
                   request, validated, signed, wire,
                   blockVars, viewVars>>

NextTif == CallParseStr \/ EncodeParsed \/ EncodeFlags \/ DecodeEncoded

SpecTif == InitTif /\ [][NextTif]_vars

(***************************************************************************)
(* Newline data: the texts handed to parse_newline_data                    *)
(***************************************************************************)
\* the most lines in a text
MaxLines == 3

\* lines with and without '=', with white space, with a carriage return, blank
NewlinePieces ==
    {<<"a", "=", "1">>, <<"a", "=", "2">>, <<"b", "=", " ", "x", " ">>, <<"k", "=", "v", "=", "w">>, <<"=">>, <<"a", "=">>, <<"a", "=", "1", "\r">>, <<"j", "u", "n", "k">>, <<" ">>, <<"\r">>, <<>>}

\* the texts of 1..MaxLines such pieces, a line feed between them
NewlineTexts ==
    UNION {{Join(ls, <<"\n">>) : ls \in [1..k -> NewlinePieces]} : k \in 1..MaxLines}

InitNewline ==
    /\ overflow_checks \in BOOLEAN
    /\ wire \in {Some(t) : t \in NewlineTexts}
    /\ versions = None
    /\ prot = None
    /\ other_versions = None
    /\ other = None
    /\ matched = None
    /\ request = None
    /\ validated = None
    /\ signed = <<>>
    /\ parsed = None
    /\ params = None
    /\ response = None
    /\ encoded = <<>>
    /\ shown = None
    /\ reparsed = None
    /\ matched_back = None
    /\ tif_flags = None
    /\ tif_string = None

\* let parsed = parse_newline_data(wire)
CallParseNewlineData ==
    /\ wire # None
    /\ parsed = None
    /\ parsed' = ParseNewlineData(wire.val)
    /\ UNCHANGED <<overflow_checks, tifVars, versions, prot, other_versions, other, matched,
                   request, validated, signed, wire,
                   blockVars, viewVars>>

NextNewline == CallParseNewlineData

SpecNewline == InitNewline /\ [][NextNewline]_vars

(***************************************************************************)
(* Options: the opt values of the client parameters a server receives      *)
(***************************************************************************)
\* the most tokens in an opt value
MaxOptions == 3

\* the vocabulary, and tokens outside it
OptionTokens ==
    {<<"n", "o", "i", "p", "t", "e", "s", "t">>, <<"s", "q", "r", "l", "o", "n", "l", "y">>, <<"h", "a", "r", "d", "l", "o", "c", "k">>, <<"c", "p", "s">>, <<"s", "u", "k">>, <<"S", "U", "K">>, <<"c", "p", "s", " ">>, <<"x">>, <<>>}

\* the opt values: 1..MaxOptions tokens with '~' between them
OptionStrings ==
    UNION {{Join(ts, <<"~">>) : ts \in [1..k -> OptionTokens]} : k \in 1..MaxOptions}

\* the client parameters received: with a known or an unknown cmd, and an opt line
ParametersWithOptions ==
    {ReceivedParameters(cmd) \o OPTIONS_KEY \o <<"=">> \o opt \o <<"\r", "\n">> :
        cmd \in {<<"q", "u", "e", "r", "y">>, <<"b", "o", "g", "u", "s">>}, opt \in OptionStrings}

InitOptions ==
    /\ overflow_checks \in BOOLEAN
    /\ wire \in {Some(t) : t \in ParametersWithOptions}
    /\ versions = None
    /\ prot = None
    /\ other_versions = None
    /\ other = None
    /\ matched = None
    /\ request = None
    /\ validated = None
    /\ signed = <<>>
    /\ parsed = None
    /\ params = None
    /\ response = None
    /\ encoded = <<>>
    /\ shown = None
    /\ reparsed = None
    /\ matched_back = None
    /\ tif_flags = None
    /\ tif_string = None

\* let parsed = ClientParameters::from_str(wire)
CallParametersFromStr ==
    /\ wire # None
    /\ parsed = None
    /\ parsed' = ClientParametersFromStr(wire.val, overflow_checks)
    /\ UNCHANGED <<overflow_checks, tifVars, versions, prot, other_versions, other, matched,
                   request, validated, signed, wire,
                   blockVars, viewVars>>

NextOptions == CallParametersFromStr

SpecOptions == InitOptions /\ [][NextOptions]_vars

(***************************************************************************)
(* Properties of validate                                                  *)
(***************************************************************************)
HasPids(r) == r.previous_identity_signature # None

HasPidk(r) == r.client_params.previous_identity_key # None

HasUrs(r) == r.unlock_request_signature # None

HasSuk(r) == r.client_params.server_unlock_key # None

HasVuk(r) == r.client_params.verify_unlock_key # None

\* the request answers a server response whose flags lack CurrentIdMatch
AfterOtherIdentity(r) ==
    /\ r.server_data.kind = "ServerResponse"
    /\ \A i \in 1..Len(r.server_data.server_response.transaction_indication_flags) :
          r.server_data.server_response.transaction_indication_flags[i] # "CurrentIdMatch"

NeedsUrs(r) == r.client_params.command \in {"Enable", "Remove"}

\* C6: validate returns an error whenever exactly one of pids and pidk is present:
\* pids without pidk fails, and pidk without pids fails.
C6_PreviousIdentityMismatch ==
    validated # None =>
        ((HasPids(request.val) /\ ~HasPidk(request.val)) => validated.kind = "Err")
        /\ ((HasPidk(request.val) /\ ~HasPids(request.val)) => validated.kind = "Err")

C6_Witness ==
    /\ validated # None
    /\ HasPidk(request.val) /\ ~HasPids(request.val)
    /\ validated.kind = "Err"

\* C7: validate returns an error for every Enable or Remove request without urs; for
\* Query, Ident and Disable the absence of urs alone never causes an error: such a
\* request is valid when nothing else is wrong with it, and any error it gets is the
\* one the same request gets with urs present.
C7_UnlockRequestSignature ==
    (validated # None /\ ~HasUrs(request.val)) =>
        IF NeedsUrs(request.val) THEN validated.kind = "Err"
        ELSE /\ validated =
                  Validate([request.val EXCEPT
                               !.unlock_request_signature = Some(UnlockRequestSignature)])
             /\ (/\ HasPids(request.val) = HasPidk(request.val)
                 /\ (AfterOtherIdentity(request.val) =>
                        HasSuk(request.val) /\ HasVuk(request.val)))
                => validated.kind = "Ok"

C7_Witness ==
    /\ validated # None
    /\ request.val.client_params.command = "Remove"
    /\ ~HasUrs(request.val)
    /\ HasPids(request.val) /\ HasPidk(request.val)
    /\ validated.kind = "Err"

\* C8: for every command, after a server response without CurrentIdMatch validate
\* returns an error unless the client parameters carry both suk and vuk; with a Url, or
\* with CurrentIdMatch among the flags, missing suk or vuk never causes an error.
C8_UnlockKeys ==
    (validated # None /\ ~(HasSuk(request.val) /\ HasVuk(request.val))) =>
        IF AfterOtherIdentity(request.val) THEN validated.kind = "Err"
        ELSE /\ validated =
                  Validate([request.val EXCEPT
                               !.client_params.server_unlock_key = Some(UnlockKey),
                               !.client_params.verify_unlock_key = Some(UnlockKey)])
             /\ (/\ HasPids(request.val) = HasPidk(request.val)
                 /\ (NeedsUrs(request.val) => HasUrs(request.val)))
                => validated.kind = "Ok"

C8_Witness ==
    /\ validated # None
    /\ AfterOtherIdentity(request.val)
    /\ HasSuk(request.val) /\ ~HasVuk(request.val)
    /\ HasPids(request.val) = HasPidk(request.val)
    /\ NeedsUrs(request.val) => HasUrs(request.val)
    /\ validated.kind = "Err"

\* the checks a request violates, numbered in the order of the contract: 1 pids without
\* pidk, 2 pidk without pids, 3 urs missing, 4 suk missing, 5 vuk missing
Violations(r) ==
    {n \in 1..5 :
        \/ n = 1 /\ HasPids(r) /\ ~HasPidk(r)
        \/ n = 2 /\ HasPidk(r) /\ ~HasPids(r)
        \/ n = 3 /\ NeedsUrs(r) /\ ~HasUrs(r)
        \/ n = 4 /\ AfterOtherIdentity(r) /\ ~HasSuk(r)
        \/ n = 5 /\ AfterOtherIdentity(r) /\ ~HasVuk(r)}

FirstViolation(r) == CHOOSE n \in Violations(r) : \A m \in Violations(r) : n <= m

\* one request for each check, violating that check and no other
OnlyViolating(n) ==
    CHOOSE r \in ValidateRequests : Violations(r) = {n}

\* C9: validate checks pids/pidk, then urs, then suk and then vuk, and returns the
\* error of the first violated check; each violation has a message of its own, and
\* validate returns Ok exactly when no check is violated.
C9_FirstViolation ==
    validated # None =>
        /\ validated.kind = "Ok" <=> Violations(request.val) = {}
        /\ Violations(request.val) # {} =>
              /\ validated.kind = "Err"
              /\ validated = Validate(OnlyViolating(FirstViolation(request.val)))
              /\ \A n \in 1..5 :
                    n # FirstViolation(request.val) =>
                        validated # Validate(OnlyViolating(n))

C9_Witness ==
    /\ validated # None
    /\ Violations(request.val) = {2, 3, 4, 5}
    /\ validated = Err("Previous identity key set, but no previous identity signature")

(***************************************************************************)
(* Properties of the request codec                                         *)
(***************************************************************************)
\* C1: every call of get_signed_string on one request returns the same string.
C1_SignedStringDeterministic ==
    \A i, j \in 1..Len(signed) : signed[i] = signed[j]

\* C3: parsing client parameters whose cmd value is none of query, ident, disable,
\* enable, remove returns an error to the caller and never panics.
C3_UnknownCommandIsError ==
    (parsed # None /\ request = None) =>
        LET client == Get(ParseQueryData(wire.val).val, CLIENT_PARAMETERS_KEY).val
            cmd == Get(ParseNewlineData(FromUtf8(Base64Decode(client))).val, COMMAND_KEY).val
        IN  cmd \notin {ClientCommandDisplay(c) : c \in ClientCommands}
                => parsed.kind = "Err"

\* C10: from_query_string(x.to_query_string()) succeeds and yields a request equal
\* to x, for both variants of the server data, with or without pids and urs.
C10_QueryStringRoundTrip ==
    (parsed # None /\ request # None) => parsed = Ok(request.val)

\* the requests that differ from r in the three signatures only
SignatureVariants(r) ==
    {[r EXCEPT !.identity_signature = ids,
               !.previous_identity_signature = pids,
               !.unlock_request_signature = urs] :
        ids \in {IdentitySignature, UnlockRequestSignature},
        pids \in Optional(IdentitySignature),
        urs \in Optional(UnlockRequestSignature)}

\* the pairs of a request and a text get_signed_string may return for it whatever
\* the three signatures are
SignedWhateverSignatures ==
    UNION {LET texts == {GetSignedString(v) : v \in SignatureVariants(r)}
           IN  {<<r, t>> : t \in {u \in GetSignedString(r) : \A s \in texts : u \in s}}
           : r \in CodecRequests}

\* the pairs of a request and a text client_params.to_base64() may return for it
ClientTexts ==
    UNION {{<<r, t>> : t \in ClientParametersToBase64(r.client_params)} : r \in CodecRequests}

\* the text server_data.to_base64() returns for each server data
ServerTexts == {<<sd, ServerDataToBase64(sd)>> : sd \in {r.server_data : r \in CodecRequests}}

\* text is one of the client texts of r followed immediately by the server text b
IsConcatenation(text, r, b) ==
    /\ Len(text) >= Len(b)
    /\ SubSeq(text, Len(text) - Len(b) + 1, Len(text)) = b
    /\ <<r, SubSeq(text, 1, Len(text) - Len(b))>> \in ClientTexts

\* C15: get_signed_string returns client_params.to_base64() followed immediately
\* by server_data.to_base64(), nothing between or around them, and the result
\* does not depend on ids, pids or urs.
C15_SignedStringIsConcatenation ==
    request # None => \A i \in 1..Len(signed) :
        /\ \E p \in ServerTexts :
               p[1] = request.val.server_data /\ IsConcatenation(signed[i], request.val, p[2])
        /\ <<request.val, signed[i]>> \in SignedWhateverSignatures

\* the signed string of a request carrying pids and urs was taken
C15_Witness ==
    /\ request # None
    /\ signed # <<>>
    /\ request.val.previous_identity_signature # None
    /\ request.val.unlock_request_signature # None
    /\ request.val.server_data.kind = "ServerResponse"

\* the value received under a key of the query string
Received(key) == ParseQueryData(wire.val).val[key]

\* C25: for every query string from_query_string accepts, get_signed_string of
\* the parsed request is the received value of the client key followed
\* immediately by the received value of the server key, character for
\* character: the text the sender signed.
C25_SignedStringAsReceived ==
    (request = None /\ parsed # None /\ parsed.kind = "Ok") =>
        \A i \in 1..Len(signed) :
            signed[i] = Received(CLIENT_PARAMETERS_KEY) \o Received(SERVER_DATA_KEY)

\* C26: for both variants of the server data, the value to_query_string writes
\* under the server key is base64url text equal to server_data.to_base64().
C26_ServerValueIsBase64 ==
    (request # None /\ wire # None) =>
        /\ IsBase64(Received(SERVER_DATA_KEY))
        /\ Received(SERVER_DATA_KEY) = ServerDataToBase64(request.val.server_data)

(***************************************************************************)
(* Properties of the block codecs                                          *)
(***************************************************************************)
\* C11: ClientParameters::from_base64(x.to_base64()) succeeds and equals x, for any
\* command, any optional fields present, options of any length including none, and
\* string fields of any value including the empty one.
C11_ParametersRoundTrip ==
    (params # None /\ parsed # None) => parsed = Ok(params.val)

\* C12: ServerResponse::from_base64(x.to_base64()) succeeds and equals x in every
\* field, for any list of status flags and any optional fields present.
C12_ResponseRoundTrip ==
    (response # None /\ parsed # None) => parsed = Ok(response.val)

\* C16: serialising one ServerResponse value twice gives the same text: the fields
\* are written in one fixed order.
C16_ResponseTextDeterministic ==
    response # None => \A i, j \in 1..Len(encoded) : encoded[i] = encoded[j]

\* the parsed server data is the ServerResponse variant
IsResponseVariant == parsed # None /\ parsed.kind = "Ok" /\ parsed.val.kind = "ServerResponse"

\* C13: when from_base64 accepts a base64 string as the ServerResponse variant,
\* original_response is that string, and to_base64 and Display return exactly
\* that string, never a text written anew from the parsed fields
C13_OriginalResponseEchoed ==
    IsResponseVariant =>
        /\ parsed.val.original_response = wire.val
        /\ \A i \in 1..Len(encoded) : encoded[i] = wire.val

\* a response whose lines are not in an order Display could write was parsed
\* and written back twice
C13_Witness ==
    /\ IsResponseVariant
    /\ Len(encoded) = MaxCalls
    /\ wire.val \notin ServerResponseToBase64(parsed.val.server_response)

\* the text from_base64 decodes from the received string
DecodedData == FromUtf8(Base64Decode(wire.val))

\* C14: from_base64 classifies the decoded text in a fixed order: a sqrl url
\* with a domain gives the Url variant, even when the text is also a server
\* response; otherwise a text that parses as a server response gives the
\* ServerResponse variant; otherwise the call returns an error
C14_ClassificationOrder ==
    (parsed # None /\ IsBase64(wire.val) /\ IsUtf8(Base64Decode(wire.val))) =>
        IF SqrlUrlParse(DecodedData).kind = "Ok"
        THEN parsed.kind = "Ok" /\ parsed.val.kind = "Url"
        ELSE IF ServerResponseFromStr(DecodedData, overflow_checks).kind = "Ok"
        THEN parsed.kind = "Ok" /\ parsed.val.kind = "ServerResponse"
        ELSE parsed.kind = "Err"

(***************************************************************************)
(* Properties of the status flags                                          *)
(***************************************************************************)
\* the names of the flags, and the flags of a list
FlagNames == {TIFValues[i].name : i \in 1..Len(TIFValues)}

Members(l) == {l[i] : i \in 1..Len(l)}

\* the flags whose bit is set in n
FlagsOf(n) == {f \in FlagNames : n % (2 * TIFBit(f)) >= TIFBit(f)}

\* each flag at most once, in ascending order of the bit values
IsCanonicalList(l) == \A i, j \in 1..Len(l) : i < j => TIFBit(l[i]) < TIFBit(l[j])

\* C21: for every integer n that parse_str accepts, the list returned holds
\* exactly the flags whose bit is set in n, each once, in ascending bit order;
\* bits of n outside the ten flag bits are dropped without an error.
C21_DecodedFlags ==
    (wire # None /\ parsed # None) =>
        IF IsUInt(wire.val, U16Max)
        THEN /\ parsed.kind = "Ok"
             /\ Members(parsed.val) = FlagsOf(ParseUInt(wire.val))
             /\ IsCanonicalList(parsed.val)
        ELSE parsed.kind = "Err"

\* 674 was decoded to its four flags
C21_Witness ==
    /\ wire = Some(<<"6", "7", "4">>)
    /\ parsed = Ok(<<"PreviousIdMatch", "TransientError", "ClientFailure", "IdentitySuperseded">>)

\* the number that has exactly the bits of a set of flags
RECURSIVE BitsOf(_)
BitsOf(S) ==
    IF S = {} THEN 0 ELSE LET f == CHOOSE x \in S : TRUE IN TIFBit(f) + BitsOf(S \ {f})

\* C22: for any list of flags, in any order, with or without repeats, the tif
\* value written is the bitwise OR of the members' bits in decimal, and decoding
\* it gives the same set of members in canonical order; and for every n in
\* 0..1023 the value written for from_u16(n) is n.
C22_FlagsRoundTrip ==
    /\ (tif_flags # None /\ tif_string # None) =>
           /\ tif_string.val = ToDecimal(BitsOf(Members(tif_flags.val)))
           /\ parsed # None =>
                  /\ parsed.kind = "Ok"
                  /\ Members(parsed.val) = Members(tif_flags.val)
                  /\ IsCanonicalList(parsed.val)
    /\ (wire # None /\ tif_string # None /\ ParseUInt(wire.val) <= AllFlagBits) =>
           tif_string.val = ToDecimal(ParseUInt(wire.val))

\* a list with a flag repeated was encoded and decoded
C22_Witness ==
    /\ tif_flags = Some(<<"SqrlDisabled", "SqrlDisabled">>)
    /\ tif_string = Some(<<"8">>)
    /\ parsed = Ok(<<"SqrlDisabled">>)

(***************************************************************************)
(* Properties of parse_newline_data                                        *)
(***************************************************************************)
\* the lines of a text, and those that hold a '='
LinesOf(text) == LET pieces == Split(text, "\n") IN {pieces[i] : i \in 1..Len(pieces)}

IsBlank(line) == \A i \in 1..Len(line) : IsWhitespace(line[i])

\* C23: parse_newline_data returns an error if and only if some non-blank line
\* holds no '='; blank lines are skipped, also the empty piece after a final
\* line feed and the blank lines of a text with CRLF line ends; otherwise the
\* text before the first '=' of each line is mapped to the text after it, with
\* the white space around it (a trailing carriage return too) trimmed.
C23_NewlineData ==
    parsed # None =>
        LET pairs == {l \in LinesOf(wire.val) : Contains(l, "=")}
        IN  IF \E l \in LinesOf(wire.val) : ~IsBlank(l) /\ ~Contains(l, "=")
            THEN parsed.kind = "Err"
            ELSE /\ parsed.kind = "Ok"
                 /\ DOMAIN parsed.val = {KeyOf(l) : l \in pairs}
                 /\ \A k \in DOMAIN parsed.val :
                        \E l \in pairs : KeyOf(l) = k /\ parsed.val[k] = Trim(ValueOf(l))

(***************************************************************************)
(* Properties of the options                                               *)
(***************************************************************************)
\* the fixed vocabulary: the token of each option
Vocabulary ==
    {<<<<"n", "o", "i", "p", "t", "e", "s", "t">>, "NoIPTest">>, <<<<"s", "q", "r", "l", "o", "n", "l", "y">>, "SQRLOnly">>, <<<<"h", "a", "r", "d", "l", "o", "c", "k">>, "Hardlock">>,
     <<<<"c", "p", "s">>, "ClientProvidedSession">>, <<<<"s", "u", "k">>, "ServerUnlockKey">>}

InVocabulary(token) == \E v \in Vocabulary : v[1] = token

OptionOf(token) == (CHOOSE v \in Vocabulary : v[1] = token)[2]

\* the opt value of the client parameters received
OptValue == ParseNewlineData(wire.val).val[OPTIONS_KEY]

\* C24: the opt value is split on '~' and each token decoded against the
\* vocabulary noiptest, sqrlonly, hardlock, cps, suk: when every token is in
\* the vocabulary the options are those of the tokens in the input order,
\* repeats kept; when a token is not, the parse of the client parameters
\* returns an error.
C24_OptionsDecoded ==
    parsed # None =>
        LET tokens == Split(OptValue, "~")
        IN  IF \A i \in 1..Len(tokens) : InVocabulary(tokens[i])
            THEN /\ parsed.kind = "Ok"
                 /\ parsed.val.options = Some([i \in 1..Len(tokens) |-> OptionOf(tokens[i])])
            ELSE parsed.kind = "Err"
====
